---------------------------- MODULE Spec2Model ----------------------------
(***************************************************************************)
(* The substitution engine of the pharmacy inventory manager               *)
(* (class SubstitutionEngine, src/src/App.tsx lines 432-706).              *)
(*                                                                         *)
(* Text the engine inspects character by character (active molecule,       *)
(* dosage, dosage form, category, generic name, rule notes, and the        *)
(* strings it builds) is a sequence of one-character strings, so that      *)
(* toLowerCase, the dosage regular expression, substring and includes are  *)
(* computed as the code computes them.  Text that is only compared for     *)
(* equality or tested for emptiness (id, brandName, manufacturer) is a     *)
(* plain string.                                                           *)
(*                                                                         *)
(* Numbers: a parsed strength is the exact rational <<num, den>> of the    *)
(* decimal the code reads (den > 0); the catalog's dosages are short       *)
(* decimals for which the IEEE double arithmetic of the code gives the     *)
(* same floor and the same one-decimal rounding as the exact arithmetic.   *)
(***************************************************************************)
EXTENDS Integers, Sequences, FiniteSets, TLC

VARIABLES
    drugs,                  \* this.drugs: the bound catalog
    substitutionRules,      \* this.substitutionRules: the bound rule set
    targetDrug,             \* argument of the last findSubstitutes call (None: null
                            \* or undefined, and before any call)
    availableOnly,          \* argument of the last findSubstitutes call
    suggestions,            \* findSubstitutes' local array, before the merge
    ruleBasedSuggestions,   \* findSubstitutes' local: the rule pass' output
    result,                 \* what the last findSubstitutes call returned
    thrown,                 \* the exception the last call ended with, None if it returned
    last,                   \* the operation that produced this state
    dataArguments,          \* history: the arguments the constructor or the last
                            \* updateData call received, and which of the two it was
                            \* (rules: the value of the parameter, [] when the
                            \* argument is omitted; replaced: Some(the rules bound
                            \* before) for an updateData call without the rules
                            \* argument, None otherwise)
    previous,               \* history: Some(what the call before the last returned)
                            \* if it was a findSubstitutes call with the last call's
                            \* arguments, None otherwise
    dosageArgument,         \* parseStrength's argument
    parsedStrength,         \* what parseStrength returned for it
    nameArguments,          \* haveSimilarNames' arguments name1, name2
    similarNames,           \* Some(what haveSimilarNames returned for them)
    panel                   \* the SubstitutionPanel: its props targetDrug and
                            \* allDrugs, its state suggestions, loading and
                            \* showUnavailable, and the timers its effect has
                            \* scheduled that have not fired

vars == <<drugs, substitutionRules, targetDrug, availableOnly,
          suggestions, ruleBasedSuggestions, result, thrown, last,
          dataArguments, previous, dosageArgument, parsedStrength,
                   nameArguments, similarNames, panel>>

-----------------------------------------------------------------------------
(* Optional values: undefined / null is None, a present value v is Some(v). *)

None == <<>>

Some(v) == <<v>>

-----------------------------------------------------------------------------
(* Characters and strings                                                  *)

UpperCaseLetters ==
    <<"A", "B", "C", "D", "E", "F", "G", "H", "I", "J", "K", "L", "M",
      "N", "O", "P", "Q", "R", "S", "T", "U", "V", "W", "X", "Y", "Z">>

LowerCaseLetters ==
    <<"a", "b", "c", "d", "e", "f", "g", "h", "i", "j", "k", "l", "m",
      "n", "o", "p", "q", "r", "s", "t", "u", "v", "w", "x", "y", "z">>

DecimalDigits == <<"0", "1", "2", "3", "4", "5", "6", "7", "8", "9">>

\* the lower-case letter of each upper-case letter
LowerOfUpper == [c \in {UpperCaseLetters[i] : i \in 1..26} |->
                    LowerCaseLetters[CHOOSE i \in 1..26 : UpperCaseLetters[i] = c]]

ValueOfDigit == [c \in {DecimalDigits[i] : i \in 1..10} |->
                    (CHOOSE i \in 1..10 : DecimalDigits[i] = c) - 1]

LowerLetterSet == {LowerCaseLetters[i] : i \in 1..26}

\* the upper-case letter of each lower-case letter
UpperOfLower == [c \in LowerLetterSet |->
                    UpperCaseLetters[CHOOSE i \in 1..26 : LowerCaseLetters[i] = c]]

\* the three letters mu: U+00B5 (the one the source writes), U+03BC, U+039C
MicroSign == "µ"

GreekSmallMu == "μ"

GreekCapitalMu == "Μ"

\* toLowerCase maps U+039C to U+03BC and leaves U+00B5 and U+03BC as they are
toLowerCaseChar(c) ==
    IF c \in DOMAIN LowerOfUpper THEN LowerOfUpper[c]
    ELSE IF c = GreekCapitalMu THEN GreekSmallMu
    ELSE c

\* Canonicalize of a regular expression with the flag i and without the flag
\* u: the character's toUpperCase; U+00B5 and U+03BC both give U+039C
canonicalizeChar(c) ==
    IF c \in DOMAIN UpperOfLower THEN UpperOfLower[c]
    ELSE IF c = MicroSign \/ c = GreekSmallMu THEN GreekCapitalMu
    ELSE c

canonicalize(s) == [i \in 1..Len(s) |-> canonicalizeChar(s[i])]

\* String.prototype.toLowerCase
toLowerCase(s) == [i \in 1..Len(s) |-> toLowerCaseChar(s[i])]

\* \d
isDigit(c) == c \in DOMAIN ValueOfDigit

digitValue(c) == ValueOfDigit[c]

\* \s
isSpace(c) == c = " "

\* [a-z]
isLowerLetter(c) == c \in LowerLetterSet

Min(a, b) == IF a <= b THEN a ELSE b

\* String.prototype.substring(from0, to0), zero-based, end exclusive, clamped
substring(s, from0, to0) == SubSeq(s, from0 + 1, Min(to0, Len(s)))

\* String.prototype.includes
includes(s, t) ==
    \E i \in 0..(Len(s) - Len(t)) : SubSeq(s, i + 1, i + Len(t)) = t

\* s.replace(/[^a-z]/g, '')
RECURSIVE stripNonLetters(_)
stripNonLetters(s) ==
    IF s = <<>> THEN <<>>
    ELSE IF isLowerLetter(Head(s))
         THEN <<Head(s)>> \o stripNonLetters(Tail(s))
         ELSE stripNonLetters(Tail(s))

RECURSIVE pow10(_)
pow10(k) == IF k = 0 THEN 1 ELSE 10 * pow10(k - 1)

\* the value of a string of decimal digits
RECURSIVE digitsValue(_)
digitsValue(s) ==
    IF s = <<>> THEN 0
    ELSE 10 * digitsValue(SubSeq(s, 1, Len(s) - 1)) + digitValue(s[Len(s)])

\* the decimal digits of a natural number (Number -> String on an integer)
RECURSIVE natToString(_)
natToString(n) ==
    IF n < 10 THEN <<DecimalDigits[n + 1]>>
    ELSE natToString(n \div 10) \o <<DecimalDigits[(n % 10) + 1]>>

-----------------------------------------------------------------------------
(* parseStrength: /(\d+(?:\.\d+)?)\s*(mg|g|ml|mcg|µg)/i                    *)

\* the unit alternatives, in the order the regular expression tries them
UnitAlternatives == <<<<"m", "g">>, <<"g">>, <<"m", "l">>, <<"m", "c", "g">>, <<"µ", "g">>>>

least(S) == CHOOSE u \in S : \A v \in S : u <= v

leastOrZero(S) == IF S = {} THEN 0 ELSE least(S)

\* \d+ and \s* are greedy: the length of the run from position i
RECURSIVE digitRun(_, _)
digitRun(s, i) ==
    IF i <= Len(s) /\ isDigit(s[i]) THEN 1 + digitRun(s, i + 1) ELSE 0

RECURSIVE spaceRun(_, _)
spaceRun(s, i) ==
    IF i <= Len(s) /\ isSpace(s[i]) THEN 1 + spaceRun(s, i + 1) ELSE 0

\* (?:\.\d+)? at position dot: the length it consumes
fractionRun(s, dot) ==
    IF dot <= Len(s) /\ s[dot] = "." /\ digitRun(s, dot + 1) > 0
    THEN 1 + digitRun(s, dot + 1)
    ELSE 0

\* the unit, matched at position j under the flag i
unitMatches(s, j, unit) ==
    /\ j + Len(unit) - 1 <= Len(s)
    /\ canonicalize(SubSeq(s, j, j + Len(unit) - 1)) = canonicalize(unit)

\* index of the first alternative that matches at position j, 0 when none does
unitAt(s, j) ==
    leastOrZero({u \in 1..Len(UnitAlternatives) : unitMatches(s, j, UnitAlternatives[u])})

\* the match whose number is s[i .. afterNum - 1] and whose unit, alternative
\* u, starts at unitStart; unit is match[2], the text as the dosage writes it
matchWithUnit(s, i, afterInt, afterNum, unitStart, u) ==
    IF afterInt > i /\ u # 0
    THEN Some([intDigits  |-> SubSeq(s, i, afterInt - 1),
               fracDigits |-> SubSeq(s, afterInt + 1, afterNum - 1),
               unit       |-> SubSeq(s, unitStart, unitStart + Len(UnitAlternatives[u]) - 1)])
    ELSE None

matchAfterBlanks(s, i, afterInt, afterNum, unitStart) ==
    matchWithUnit(s, i, afterInt, afterNum, unitStart, unitAt(s, unitStart))

matchAfterNumber(s, i, afterInt, afterNum) ==
    matchAfterBlanks(s, i, afterInt, afterNum, afterNum + spaceRun(s, afterNum))

matchAfterInt(s, i, afterInt) ==
    matchAfterNumber(s, i, afterInt, afterInt + fractionRun(s, afterInt))

(* The match attempt that starts at position i.  The quantifiers are       *)
(* greedy; a shorter digit run, a dropped fraction or fewer blanks would   *)
(* leave a digit, a "." or a blank where the unit must start, so the       *)
(* greedy attempt is the only one that can succeed at i.                   *)
matchAt(s, i) == matchAfterInt(s, i, i + digitRun(s, i))

\* the first attempt that succeeded
firstSome(attempts) ==
    IF \A i \in DOMAIN attempts : attempts[i] = None THEN None
    ELSE attempts[least({i \in DOMAIN attempts : attempts[i] # None})]

\* dosage.match(...): the leftmost match, None when there is none
regexMatch(s) == firstSome([i \in 1..Len(s) |-> matchAt(s, i)])

\* lines 662-669: the number num / den of the given unit, in milligrams; the
\* case labels are 'g', 'mcg' and 'µg' with U+00B5
milligrams(num, den, unit) ==
    IF unit = <<"g">> THEN <<num * 1000, den>>
    ELSE IF unit = <<"m", "c", "g">> \/ unit = <<"µ", "g">> THEN <<num, den * 1000>>
    ELSE <<num, den>>

strengthOfMatch(match) ==
    IF match = None THEN None
    ELSE milligrams(digitsValue(match[1].intDigits \o match[1].fracDigits),
                    pow10(Len(match[1].fracDigits)),
                    toLowerCase(match[1].unit))

\* null, or the strength in milligrams as the rational <<num, den>>
parseStrength(dosage) == strengthOfMatch(regexMatch(dosage))

\* JavaScript truthiness of a number | null: neither null nor 0
truthy(v) == v # None /\ v[1] # 0

-----------------------------------------------------------------------------
(* Exact arithmetic on the rationals <<num, den>>, den > 0                 *)

\* a < b
ratLess(a, b) == a[1] * b[2] < b[1] * a[2]

\* Math.floor((Math.min(a, b) / Math.max(a, b)) * 10), for a, b > 0
floorTenTimesMinOverMax(a, b) ==
    LET lo == IF ratLess(b, a) THEN b ELSE a
        hi == IF ratLess(b, a) THEN a ELSE b
    IN  (10 * lo[1] * hi[2]) \div (lo[2] * hi[1])

\* (p / q).toFixed(1) for p >= 0, q > 0: the nearest tenth, a tie rounded up
toFixed1(p, q) ==
    LET tenths == (20 * p + q) \div (2 * q)
    IN  natToString(tenths \div 10) \o <<".">> \o natToString(tenths % 10)

\* the digits after the decimal point of rest / den, 0 <= rest < den
RECURSIVE fractionDigits(_, _)
fractionDigits(rest, den) ==
    IF rest = 0 THEN <<>>
    ELSE <<DecimalDigits[((10 * rest) \div den) + 1]>>
         \o fractionDigits((10 * rest) % den, den)

\* `${n}` for a number n = <<num, den>> >= 0 with a finite decimal expansion
numberToString(n) ==
    natToString(n[1] \div n[2])
    \o (IF n[1] % n[2] = 0 THEN <<>>
        ELSE <<".">> \o fractionDigits(n[1] % n[2], n[2]))

-----------------------------------------------------------------------------
(* Sequences as JavaScript arrays                                          *)

\* Array.prototype.map
mapSeq(s, f(_)) == [i \in 1..Len(s) |-> f(s[i])]

\* concatenation of a sequence of sequences
RECURSIVE flatten(_)
flatten(ss) == IF ss = <<>> THEN <<>> ELSE Head(ss) \o flatten(Tail(ss))

\* Array.prototype.includes
arrayIncludes(s, x) == \E i \in 1..Len(s) : s[i] = x

\* undefined, or the first element
firstOrNone(s) == IF s = <<>> THEN None ELSE Some(Head(s))

-----------------------------------------------------------------------------
(* The passes of findSubstitutes                                           *)

\* searchPool without the test drug.id !== targetDrug.id
searchPoolKeepingTarget(ds, target, avail) ==
    LET keep(drug) == avail => drug.stockLevel > 0
    IN  SelectSeq(ds, keep)

\* searchPool without the test drug.stockLevel > 0
searchPoolIgnoringStock(ds, target, avail) ==
    LET keep(drug) == drug.id # target.id
    IN  SelectSeq(ds, keep)

\* lines 448-450
searchPool(ds, target, avail) ==
    LET keep(drug) == /\ avail => drug.stockLevel > 0
                      /\ drug.id # target.id
    IN  SelectSeq(ds, keep)

\* isExactMatch without the comparison of the dosage strings
isExactMatchIgnoringDosage(target, drug) ==
    /\ toLowerCase(drug.activeMolecule) = toLowerCase(target.activeMolecule)
    /\ toLowerCase(drug.dosageForm) = toLowerCase(target.dosageForm)

\* the filter of lines 453-457
isExactMatch(target, drug) ==
    /\ toLowerCase(drug.activeMolecule) = toLowerCase(target.activeMolecule)
    /\ drug.dosage = target.dosage
    /\ toLowerCase(drug.dosageForm) = toLowerCase(target.dosageForm)

exactMatches(target, pool) ==
    LET keep(drug) == isExactMatch(target, drug)
    IN  SelectSeq(pool, keep)

\* lines 460-465
exactSuggestion(drug) ==
    [drug             |-> drug,
     matchType        |-> "exact",
     confidence       |-> 95,
     reason           |-> <<"S", "a", "m", "e", " ", "a", "c", "t", "i", "v", "e", " ", "m", "o", "l", "e", "c", "u", "l", "e", " ", "(">> \o drug.activeMolecule
                          \o <<")", ",", " ", "d", "o", "s", "a", "g", "e", " ", "(">> \o drug.dosage
                          \o <<")", ",", " ", "a", "n", "d", " ", "f", "o", "r", "m", " ", "(">> \o drug.dosageForm \o <<")">>,
     dosageAdjustment |-> None,
     warnings         |-> None]

\* equivalentMatches without the test !exactMatches.includes(drug)
equivalentMatchesKeepingExact(target, pool, exact) ==
    LET keep(drug) ==
            toLowerCase(drug.activeMolecule) = toLowerCase(target.activeMolecule)
    IN  SelectSeq(pool, keep)

\* the filter of lines 469-472; exactMatches.includes(drug) compares object
\* identities, which coincide with the records as the catalog's ids are unique
equivalentMatches(target, pool, exact) ==
    LET keep(drug) ==
            /\ toLowerCase(drug.activeMolecule) = toLowerCase(target.activeMolecule)
            /\ ~arrayIncludes(exact, drug)
    IN  SelectSeq(pool, keep)

\* lines 525-528
strengthBonus(targetStrength, candidateStrength) ==
    IF truthy(targetStrength) /\ truthy(candidateStrength)
    THEN floorTenTimesMinOverMax(targetStrength, candidateStrength)
    ELSE 0

\* brandBonus without the branch for two generics
brandBonusForBrandedOnly(targetBrand, candidateBrand) ==
    IF targetBrand # "" /\ candidateBrand # "" THEN 5 ELSE 0

\* lines 531-535
brandBonus(targetBrand, candidateBrand) ==
    IF targetBrand # "" /\ candidateBrand # "" THEN 5
    ELSE IF targetBrand = "" /\ candidateBrand = "" THEN 5
    ELSE 0

\* calculateEquivalentConfidence without the cap of line 537
equivalentConfidenceUncapped(target, candidate) ==
    80
    + (IF toLowerCase(target.dosageForm) = toLowerCase(candidate.dosageForm)
       THEN 10 ELSE 0)
    + strengthBonus(parseStrength(target.dosage), parseStrength(candidate.dosage))
    + brandBonus(target.brandName, candidate.brandName)

calculateEquivalentConfidence(target, candidate) ==
    Min(80
        + (IF toLowerCase(target.dosageForm) = toLowerCase(candidate.dosageForm)
           THEN 10 ELSE 0)
        + strengthBonus(parseStrength(target.dosage), parseStrength(candidate.dosage))
        + brandBonus(target.brandName, candidate.brandName),
        90)

\* adjustmentForRatio without the test ratio === 1
adjustmentEvenForEqual(p, q, pair) ==
    IF p > q
    THEN Some(<<"T", "a", "k", "e", " ">> \o toFixed1(p, q) \o <<"x", " ", "t", "h", "e", " ", "u", "s", "u", "a", "l", " ", "d", "o", "s", "e">> \o pair)
    ELSE Some(<<"T", "a", "k", "e", " ">> \o toFixed1(q, p) \o <<"x", " ", "l", "e", "s", "s">> \o pair)

\* adjustmentForRatio printing ratio where the code prints 1 / ratio
adjustmentWithoutInverse(p, q, pair) ==
    IF p = q THEN None
    ELSE IF p > q
         THEN Some(<<"T", "a", "k", "e", " ">> \o toFixed1(p, q) \o <<"x", " ", "t", "h", "e", " ", "u", "s", "u", "a", "l", " ", "d", "o", "s", "e">> \o pair)
         ELSE Some(<<"T", "a", "k", "e", " ">> \o toFixed1(p, q) \o <<"x", " ", "l", "e", "s", "s">> \o pair)

\* lines 549-557, ratio = p / q
adjustmentForRatio(p, q, pair) ==
    IF p = q THEN None
    ELSE IF p > q
         THEN Some(<<"T", "a", "k", "e", " ">> \o toFixed1(p, q) \o <<"x", " ", "t", "h", "e", " ", "u", "s", "u", "a", "l", " ", "d", "o", "s", "e">> \o pair)
         ELSE Some(<<"T", "a", "k", "e", " ">> \o toFixed1(q, p) \o <<"x", " ", "l", "e", "s", "s">> \o pair)

\* lines 547-557
adjustmentForStrengths(targetStrength, candidateStrength, pair) ==
    IF ~truthy(targetStrength) \/ ~truthy(candidateStrength) THEN None
    ELSE adjustmentForRatio(targetStrength[1] * candidateStrength[2],
                            targetStrength[2] * candidateStrength[1],
                            pair)

calculateDosageAdjustment(target, candidate) ==
    adjustmentForStrengths(
        parseStrength(target.dosage),
        parseStrength(candidate.dosage),
        <<" ", "(">> \o candidate.dosage \o <<" ", "→", " ", "e", "q", "u", "i", "v", "a", "l", "e", "n", "t", " ", "t", "o", " ">> \o target.dosage \o <<")">>)

\* getSubstitutionWarnings without the test of the target's category
warningsForEveryCategory(target, candidate) ==
    (IF toLowerCase(target.dosageForm) # toLowerCase(candidate.dosageForm)
     THEN <<<<"D", "i", "f", "f", "e", "r", "e", "n", "t", " ", "d", "o", "s", "a", "g", "e", " ", "f", "o", "r", "m", ":", " ">> \o target.dosageForm \o <<" ", "→", " ">> \o candidate.dosageForm>>
     ELSE <<>>)
    \o
    (IF target.isControlled \/ candidate.isControlled
     THEN <<<<"C", "o", "n", "t", "r", "o", "l", "l", "e", "d", " ", "s", "u", "b", "s", "t", "a", "n", "c", "e", " ", "-", " ", "v", "e", "r", "i", "f", "y", " ", "p", "r", "e", "s", "c", "r", "i", "p", "t", "i", "o", "n", " ", "r", "e", "q", "u", "i", "r", "e", "m", "e", "n", "t", "s">>>>
     ELSE <<>>)
    \o
    (IF target.manufacturer # candidate.manufacturer
     THEN <<<<"D", "i", "f", "f", "e", "r", "e", "n", "t", " ", "m", "a", "n", "u", "f", "a", "c", "t", "u", "r", "e", "r", " ", "-", " ", "m", "o", "n", "i", "t", "o", "r", " ", "p", "a", "t", "i", "e", "n", "t", " ", "r", "e", "s", "p", "o", "n", "s", "e">>>>
     ELSE <<>>)

getSubstitutionWarnings(target, candidate) ==
    (IF toLowerCase(target.dosageForm) # toLowerCase(candidate.dosageForm)
     THEN <<<<"D", "i", "f", "f", "e", "r", "e", "n", "t", " ", "d", "o", "s", "a", "g", "e", " ", "f", "o", "r", "m", ":", " ">> \o target.dosageForm \o <<" ", "→", " ">> \o candidate.dosageForm>>
     ELSE <<>>)
    \o
    (IF target.isControlled \/ candidate.isControlled
     THEN <<<<"C", "o", "n", "t", "r", "o", "l", "l", "e", "d", " ", "s", "u", "b", "s", "t", "a", "n", "c", "e", " ", "-", " ", "v", "e", "r", "i", "f", "y", " ", "p", "r", "e", "s", "c", "r", "i", "p", "t", "i", "o", "n", " ", "r", "e", "q", "u", "i", "r", "e", "m", "e", "n", "t", "s">>>>
     ELSE <<>>)
    \o
    (IF /\ target.manufacturer # candidate.manufacturer
        /\ includes(toLowerCase(target.category), <<"c", "a", "r", "d", "i", "a", "c">>)
     THEN <<<<"D", "i", "f", "f", "e", "r", "e", "n", "t", " ", "m", "a", "n", "u", "f", "a", "c", "t", "u", "r", "e", "r", " ", "-", " ", "m", "o", "n", "i", "t", "o", "r", " ", "p", "a", "t", "i", "e", "n", "t", " ", "r", "e", "s", "p", "o", "n", "s", "e">>>>
     ELSE <<>>)

\* lines 475-486
equivalentSuggestion(target, drug) ==
    [drug             |-> drug,
     matchType        |-> "equivalent",
     confidence       |-> calculateEquivalentConfidence(target, drug),
     reason           |-> <<"S", "a", "m", "e", " ", "a", "c", "t", "i", "v", "e", " ", "m", "o", "l", "e", "c", "u", "l", "e", " ", "(">> \o drug.activeMolecule
                          \o <<")", " ", "w", "i", "t", "h", " ">> \o drug.dosage \o <<" ">> \o drug.dosageForm,
     dosageAdjustment |-> calculateDosageAdjustment(target, drug),
     warnings         |-> Some(getSubstitutionWarnings(target, drug))]

\* prefixContained that looks for the second name's prefix only
prefixOfSecondContained(clean1, clean2) ==
    includes(clean1, substring(clean2, 0, 4))

\* line 682
prefixContained(clean1, clean2) ==
    \/ includes(clean1, substring(clean2, 0, 4))
    \/ includes(clean2, substring(clean1, 0, 4))

haveSimilarNames(name1, name2) ==
    prefixContained(stripNonLetters(toLowerCase(name1)),
                    stripNonLetters(toLowerCase(name2)))

\* calculateTherapeuticSimilarity returning the score as a percentage of its cap
similarityAsPercentOfCap(target, candidate) ==
    (100 * Min(40
               + (IF toLowerCase(target.dosageForm) = toLowerCase(candidate.dosageForm)
                  THEN 20 ELSE 0)
               + (IF haveSimilarNames(target.genericName, candidate.genericName)
                  THEN 15 ELSE 0),
               75)) \div 75

\* calculateTherapeuticSimilarity without the points for similar names
similarityWithoutNameBonus(target, candidate) ==
    Min(40
        + (IF toLowerCase(target.dosageForm) = toLowerCase(candidate.dosageForm)
           THEN 20 ELSE 0),
        75)

calculateTherapeuticSimilarity(target, candidate) ==
    Min(40
        + (IF toLowerCase(target.dosageForm) = toLowerCase(candidate.dosageForm)
           THEN 20 ELSE 0)
        + (IF haveSimilarNames(target.genericName, candidate.genericName)
           THEN 15 ELSE 0),
        75)

\* findSimilarByTherapeuticClass comparing the categories case-sensitively
findSimilarCaseSensitive(target, pool) ==
    LET sameClass(drug) ==
            /\ drug.category = target.category
            /\ toLowerCase(drug.activeMolecule) # toLowerCase(target.activeMolecule)
        score(drug) == [drug |-> drug,
                        similarity |-> calculateTherapeuticSimilarity(target, drug)]
        aboveThreshold(item) == item.similarity >= 30
    IN  SelectSeq(mapSeq(SelectSeq(pool, sameClass), score), aboveThreshold)

\* the sequence of {drug, similarity}
findSimilarByTherapeuticClass(target, pool) ==
    LET sameClass(drug) ==
            /\ toLowerCase(drug.category) = toLowerCase(target.category)
            /\ toLowerCase(drug.activeMolecule) # toLowerCase(target.activeMolecule)
        score(drug) == [drug |-> drug,
                        similarity |-> calculateTherapeuticSimilarity(target, drug)]
        aboveThreshold(item) == item.similarity >= 30
    IN  SelectSeq(mapSeq(SelectSeq(pool, sameClass), score), aboveThreshold)

\* lines 493-499
similarSuggestion(item) ==
    [drug             |-> item.drug,
     matchType        |-> "similar",
     confidence       |-> item.similarity,
     reason           |-> <<"S", "i", "m", "i", "l", "a", "r", " ", "t", "h", "e", "r", "a", "p", "e", "u", "t", "i", "c", " ", "c", "l", "a", "s", "s", " ", "(">> \o item.drug.category \o <<")">>,
     dosageAdjustment |-> None,
     warnings         |-> Some(<<<<"D", "i", "f", "f", "e", "r", "e", "n", "t", " ", "a", "c", "t", "i", "v", "e", " ", "m", "o", "l", "e", "c", "u", "l", "e", " ", "-", " ", "c", "o", "n", "s", "u", "l", "t", " ", "p", "h", "a", "r", "m", "a", "c", "i", "s", "t", " ", "b", "e", "f", "o", "r", "e", " ", "s", "u", "b", "s", "t", "i", "t", "u", "t", "i", "o", "n">>>>)]

\* isApplicableRule without the test of isActive
isApplicableRuleEvenInactive(rule, target) ==
    /\ toLowerCase(rule.activeMolecule) = toLowerCase(target.activeMolecule)
    /\ rule.dosage = target.dosage
    /\ toLowerCase(rule.dosageForm) = toLowerCase(target.dosageForm)

\* the filter of lines 625-630
isApplicableRule(rule, target) ==
    /\ rule.isActive
    /\ toLowerCase(rule.activeMolecule) = toLowerCase(target.activeMolecule)
    /\ rule.dosage = target.dosage
    /\ toLowerCase(rule.dosageForm) = toLowerCase(target.dosageForm)

\* searchPool.find(d => d.id === drugId): undefined, or the first such drug
findById(pool, drugId) ==
    LET hit(d) == d.id = drugId
    IN  firstOrNone(SelectSeq(pool, hit))

\* ruleSuggestion that ignores the rule's notes
ruleSuggestionWithoutNotes(rule, drug) ==
    [drug             |-> drug,
     matchType        |-> "equivalent",
     confidence       |-> 85,
     reason           |-> <<"C", "u", "s", "t", "o", "m", " ", "s", "u", "b", "s", "t", "i", "t", "u", "t", "i", "o", "n", " ", "r", "u", "l", "e", ":", " ", "P", "h", "a", "r", "m", "a", "c", "y", "-", "a", "p", "p", "r", "o", "v", "e", "d", " ", "e", "q", "u", "i", "v", "a", "l", "e", "n", "t">>,
     dosageAdjustment |-> IF rule.substitutionRatio[1] # rule.substitutionRatio[2]
                          THEN Some(<<"A", "d", "j", "u", "s", "t", " ", "d", "o", "s", "e", " ", "b", "y", " ", "f", "a", "c", "t", "o", "r", " ", "o", "f", " ">>
                                    \o numberToString(rule.substitutionRatio))
                          ELSE None,
     warnings         |-> None]

\* ruleSuggestion whose confidence is scaled by the substitution ratio
ruleSuggestionScaledByRatio(rule, drug) ==
    [drug             |-> drug,
     matchType        |-> "equivalent",
     confidence       |-> Min((85 * rule.substitutionRatio[1]) \div rule.substitutionRatio[2], 100),
     reason           |-> <<"C", "u", "s", "t", "o", "m", " ", "s", "u", "b", "s", "t", "i", "t", "u", "t", "i", "o", "n", " ", "r", "u", "l", "e", ":", " ">>
                          \o (IF rule.notes = None \/ rule.notes = Some(<<>>)
                              THEN <<"P", "h", "a", "r", "m", "a", "c", "y", "-", "a", "p", "p", "r", "o", "v", "e", "d", " ", "e", "q", "u", "i", "v", "a", "l", "e", "n", "t">>
                              ELSE rule.notes[1]),
     dosageAdjustment |-> IF rule.substitutionRatio[1] # rule.substitutionRatio[2]
                          THEN Some(<<"A", "d", "j", "u", "s", "t", " ", "d", "o", "s", "e", " ", "b", "y", " ", "f", "a", "c", "t", "o", "r", " ", "o", "f", " ">>
                                    \o numberToString(rule.substitutionRatio))
                          ELSE None,
     warnings         |-> None]

\* ruleSuggestion that states the dose factor even when it is 1
ruleSuggestionAlwaysAdjusting(rule, drug) ==
    [drug             |-> drug,
     matchType        |-> "equivalent",
     confidence       |-> 85,
     reason           |-> <<"C", "u", "s", "t", "o", "m", " ", "s", "u", "b", "s", "t", "i", "t", "u", "t", "i", "o", "n", " ", "r", "u", "l", "e", ":", " ">>
                          \o (IF rule.notes = None \/ rule.notes = Some(<<>>)
                              THEN <<"P", "h", "a", "r", "m", "a", "c", "y", "-", "a", "p", "p", "r", "o", "v", "e", "d", " ", "e", "q", "u", "i", "v", "a", "l", "e", "n", "t">>
                              ELSE rule.notes[1]),
     dosageAdjustment |-> Some(<<"A", "d", "j", "u", "s", "t", " ", "d", "o", "s", "e", " ", "b", "y", " ", "f", "a", "c", "t", "o", "r", " ", "o", "f", " ">>
                               \o numberToString(rule.substitutionRatio)),
     warnings         |-> None]

\* lines 636-644
ruleSuggestion(rule, drug) ==
    [drug             |-> drug,
     matchType        |-> "equivalent",
     confidence       |-> 85,
     reason           |-> <<"C", "u", "s", "t", "o", "m", " ", "s", "u", "b", "s", "t", "i", "t", "u", "t", "i", "o", "n", " ", "r", "u", "l", "e", ":", " ">>
                          \o (IF rule.notes = None \/ rule.notes = Some(<<>>)
                              THEN <<"P", "h", "a", "r", "m", "a", "c", "y", "-", "a", "p", "p", "r", "o", "v", "e", "d", " ", "e", "q", "u", "i", "v", "a", "l", "e", "n", "t">>
                              ELSE rule.notes[1]),
     dosageAdjustment |-> IF rule.substitutionRatio[1] # rule.substitutionRatio[2]
                          THEN Some(<<"A", "d", "j", "u", "s", "t", " ", "d", "o", "s", "e", " ", "b", "y", " ", "f", "a", "c", "t", "o", "r", " ", "o", "f", " ">>
                                    \o numberToString(rule.substitutionRatio))
                          ELSE None,
     warnings         |-> None]

\* lines 635-645: if (drug) suggestions.push(...)
pushIfFound(rule, found) ==
    IF found = None THEN <<>> ELSE <<ruleSuggestion(rule, found[1])>>

applySubstitutionRules(rules, target, pool) ==
    LET applicable(rule) == isApplicableRule(rule, target)
        forRule(rule) ==
            flatten([i \in 1..Len(rule.equivalentDrugs) |->
                        pushIfFound(rule, findById(pool, rule.equivalentDrugs[i]))])
    IN  flatten(mapSeq(SelectSeq(rules, applicable), forRule))

-----------------------------------------------------------------------------
(* deduplicateAndSort                                                      *)

\* deduplicate that filters nothing
deduplicateKeepingAll(s) == s

\* deduplicate that keeps the last suggestion of each drug id, at its place
deduplicateKeepingLast(s) ==
    LET lastOfItsDrug(i) == \A j \in (i + 1)..Len(s) : s[j].drug.id # s[i].drug.id
        kept == {i \in 1..Len(s) : lastOfItsDrug(i)}
        nth(k) == CHOOSE i \in kept : Cardinality({j \in kept : j <= i}) = k
    IN  [k \in 1..Cardinality(kept) |-> s[nth(k)]]

\* lines 689-694: keep the first suggestion of each drug id
deduplicate(s) ==
    LET firstOfItsDrug(i) == \A j \in 1..(i - 1) : s[j].drug.id # s[i].drug.id
        kept == {i \in 1..Len(s) : firstOfItsDrug(i)}
        \* the position in s of the k-th kept suggestion
        nth(k) == CHOOSE i \in kept : Cardinality({j \in kept : j <= i}) = k
    IN  [k \in 1..Cardinality(kept) |-> s[nth(k)]]

\* insertByConfidence that places x ahead of its equals: an unstable sort
insertAheadOfEquals(sorted, x) ==
    LET ahead == Cardinality({i \in 1..Len(sorted) : sorted[i].confidence > x.confidence})
    IN  SubSeq(sorted, 1, ahead) \o <<x>> \o SubSeq(sorted, ahead + 1, Len(sorted))

\* insertByConfidence for the comparator a.confidence - b.confidence
insertByAscendingConfidence(sorted, x) ==
    LET ahead == Cardinality({i \in 1..Len(sorted) : sorted[i].confidence <= x.confidence})
    IN  SubSeq(sorted, 1, ahead) \o <<x>> \o SubSeq(sorted, ahead + 1, Len(sorted))

\* x placed in a sequence sorted by descending confidence, behind its equals
insertByConfidence(sorted, x) ==
    LET ahead == Cardinality({i \in 1..Len(sorted) : sorted[i].confidence >= x.confidence})
    IN  SubSeq(sorted, 1, ahead) \o <<x>> \o SubSeq(sorted, ahead + 1, Len(sorted))

\* sortByConfidence that leaves the array as it is
sortByConfidenceOmitted(s) == s

\* line 696: Array.prototype.sort with (a, b) => b.confidence - a.confidence;
\* the sort is stable (ECMAScript 2019)
RECURSIVE sortByConfidence(_)
sortByConfidence(s) ==
    IF s = <<>> THEN <<>>
    ELSE insertByConfidence(sortByConfidence(SubSeq(s, 1, Len(s) - 1)), s[Len(s)])

deduplicateAndSort(s) == sortByConfidence(deduplicate(s))

\* lines 459-500: the suggestions pushed for the three matching passes
pushMatches(target, pool, exact) ==
    LET equivalent(drug) == equivalentSuggestion(target, drug)
    IN  mapSeq(exact, exactSuggestion)
        \o mapSeq(equivalentMatches(target, pool, exact), equivalent)
        \o mapSeq(findSimilarByTherapeuticClass(target, pool), similarSuggestion)

\* lines 452-500
matchingPasses(target, pool) == pushMatches(target, pool, exactMatches(target, pool))

\* lines 503-507
mergePasses(matched, ruleBased) ==
    [suggestions          |-> matched \o ruleBased,
     ruleBasedSuggestions |-> ruleBased,
     result               |-> deduplicateAndSort(matched \o ruleBased)]

\* lines 452-507, on the search pool
runPasses(rules, target, pool) ==
    mergePasses(matchingPasses(target, pool), applySubstitutionRules(rules, target, pool))

\* findSubstitutes whose rule pass resolves the ids in the catalog without
\* the target instead of the search pool
findSubstitutesResolvingInCatalog(ds, rules, target, avail) ==
    mergePasses(matchingPasses(target, searchPool(ds, target, avail)),
                applySubstitutionRules(rules, target, searchPool(ds, target, FALSE)))

\* findSubstitutes: its locals and the value it returns
findSubstitutes(ds, rules, target, avail) ==
    runPasses(rules, target, searchPool(ds, target, avail))

-----------------------------------------------------------------------------
(* The drugs and rules the engine is exercised on                          *)

MaxCatalog == 2

MaxRules == 2

Panadol ==
    [id |-> "d1", genericName |-> <<"P", "a", "r", "a", "c", "e", "t", "a", "m", "o", "l">>, brandName |-> "Panadol",
     activeMolecule |-> <<"P", "a", "r", "a", "c", "e", "t", "a", "m", "o", "l">>, dosage |-> <<"5", "0", "0", "m", "g">>, dosageForm |-> <<"T", "a", "b", "l", "e", "t">>,
     manufacturer |-> "GSK", category |-> <<"A", "n", "a", "l", "g", "e", "s", "i", "c">>,
     isControlled |-> FALSE, stockLevel |-> 5]

GenericParacetamol ==
    [id |-> "d2", genericName |-> <<"P", "a", "r", "a", "c", "e", "t", "a", "m", "o", "l">>, brandName |-> "",
     activeMolecule |-> <<"p", "a", "r", "a", "c", "e", "t", "a", "m", "o", "l">>, dosage |-> <<"5", "0", "0", "m", "g">>, dosageForm |-> <<"t", "a", "b", "l", "e", "t">>,
     manufacturer |-> "Generic Co", category |-> <<"A", "n", "a", "l", "g", "e", "s", "i", "c">>,
     isControlled |-> FALSE, stockLevel |-> 0]

ParacetamolSyrup ==
    [id |-> "d3", genericName |-> <<"P", "a", "r", "a", "c", "e", "t", "a", "m", "o", "l">>, brandName |-> "",
     activeMolecule |-> <<"P", "a", "r", "a", "c", "e", "t", "a", "m", "o", "l">>, dosage |-> <<"2", "5", "0", "m", "g">>, dosageForm |-> <<"S", "y", "r", "u", "p">>,
     manufacturer |-> "GSK", category |-> <<"A", "n", "a", "l", "g", "e", "s", "i", "c">>,
     isControlled |-> TRUE, stockLevel |-> 3]

Calpol ==
    [id |-> "d4", genericName |-> <<"A", "P", "A", "P">>, brandName |-> "Calpol",
     activeMolecule |-> <<"P", "A", "R", "A", "C", "E", "T", "A", "M", "O", "L">>, dosage |-> <<"0", ".", "3", "g">>, dosageForm |-> <<"T", "a", "b", "l", "e", "t">>,
     manufacturer |-> "Generic Co", category |-> <<"A", "n", "a", "l", "g", "e", "s", "i", "c">>,
     isControlled |-> FALSE, stockLevel |-> 2]

Brufen ==
    [id |-> "d5", genericName |-> <<"I", "b", "u", "p", "r", "o", "f", "e", "n", "/", "P", "a", "r", "a", "c", "e", "t", "a", "m", "o", "l">>, brandName |-> "Brufen",
     activeMolecule |-> <<"I", "b", "u", "p", "r", "o", "f", "e", "n">>, dosage |-> <<"a", "s", " ", "n", "e", "e", "d", "e", "d">>, dosageForm |-> <<"T", "a", "b", "l", "e", "t">>,
     manufacturer |-> "Abbott", category |-> <<"a", "n", "a", "l", "g", "e", "s", "i", "c">>,
     isControlled |-> FALSE, stockLevel |-> 4]

Lanoxin ==
    [id |-> "d7", genericName |-> <<"D", "i", "g", "o", "x", "i", "n">>, brandName |-> "Lanoxin",
     activeMolecule |-> <<"D", "i", "g", "o", "x", "i", "n">>, dosage |-> <<"2", "5", "0", "m", "c", "g">>, dosageForm |-> <<"T", "a", "b", "l", "e", "t">>,
     manufacturer |-> "GSK", category |-> <<"C", "a", "r", "d", "i", "a", "c", " ", "G", "l", "y", "c", "o", "s", "i", "d", "e">>,
     isControlled |-> FALSE, stockLevel |-> 1]

GenericDigoxin ==
    [id |-> "d8", genericName |-> <<"D", "i", "g", "o", "x", "i", "n">>, brandName |-> "",
     activeMolecule |-> <<"d", "i", "g", "o", "x", "i", "n">>, dosage |-> <<"0", ".", "2", "5", "m", "g">>, dosageForm |-> <<"t", "a", "b", "l", "e", "t">>,
     manufacturer |-> "Generic Co", category |-> <<"C", "a", "r", "d", "i", "a", "c", " ", "G", "l", "y", "c", "o", "s", "i", "d", "e">>,
     isControlled |-> FALSE, stockLevel |-> 6]

\* a drug whose dosage parses to 0
PlaceboSyrup ==
    [id |-> "d11", genericName |-> <<"P", "a", "r", "a", "c", "e", "t", "a", "m", "o", "l">>, brandName |-> "",
     activeMolecule |-> <<"P", "a", "r", "a", "c", "e", "t", "a", "m", "o", "l">>, dosage |-> <<"0", " ", "m", "g">>, dosageForm |-> <<"S", "y", "r", "u", "p">>,
     manufacturer |-> "GSK", category |-> <<"A", "n", "a", "l", "g", "e", "s", "i", "c">>,
     isControlled |-> FALSE, stockLevel |-> 2]

DrugUniverse ==
    {Panadol, GenericParacetamol, ParacetamolSyrup, Calpol,
     Brufen, Lanoxin, GenericDigoxin, PlaceboSyrup}

\* a drug whose dosage has no number followed by a unit
ParacetamolAsNeeded ==
    [id |-> "d6", genericName |-> <<"P", "a", "r", "a", "c", "e", "t", "a", "m", "o", "l">>, brandName |-> "",
     activeMolecule |-> <<"P", "a", "r", "a", "c", "e", "t", "a", "m", "o", "l">>, dosage |-> <<"a", "s", " ", "n", "e", "e", "d", "e", "d">>, dosageForm |-> <<"T", "a", "b", "l", "e", "t">>,
     manufacturer |-> "Generic Co", category |-> <<"A", "n", "a", "l", "g", "e", "s", "i", "c">>,
     isControlled |-> FALSE, stockLevel |-> 1]

\* another drug whose dosage parses to 0
ParacetamolPlacebo ==
    [id |-> "d10", genericName |-> <<"P", "a", "r", "a", "c", "e", "t", "a", "m", "o", "l">>, brandName |-> "",
     activeMolecule |-> <<"P", "a", "r", "a", "c", "e", "t", "a", "m", "o", "l">>, dosage |-> <<"0", "m", "g">>, dosageForm |-> <<"T", "a", "b", "l", "e", "t">>,
     manufacturer |-> "Generic Co", category |-> <<"A", "n", "a", "l", "g", "e", "s", "i", "c">>,
     isControlled |-> FALSE, stockLevel |-> 1]

\* the drugs substitutes are asked for; the last two are not in any catalog
Targets ==
    {Panadol, ParacetamolSyrup, Brufen, Lanoxin, ParacetamolAsNeeded, ParacetamolPlacebo}

\* active, for the triple of Panadol; lists a drug twice, the target itself,
\* an id no drug has, drugs that other passes select as well, and one of
\* another class
RuleParacetamol ==
    [activeMolecule |-> <<"p", "a", "r", "a", "c", "e", "t", "a", "m", "o", "l">>, dosage |-> <<"5", "0", "0", "m", "g">>, dosageForm |-> <<"T", "A", "B", "L", "E", "T">>,
     equivalentDrugs |-> <<"d3", "d1", "d9", "d5", "d3", "d2", "d8">>,
     substitutionRatio |-> <<1, 1>>, notes |-> Some(<<"A", "p", "p", "r", "o", "v", "e", "d">>), isActive |-> TRUE]

\* active, for the same triple, with a dose factor and no notes
RuleCrossClass ==
    [activeMolecule |-> <<"P", "a", "r", "a", "c", "e", "t", "a", "m", "o", "l">>, dosage |-> <<"5", "0", "0", "m", "g">>, dosageForm |-> <<"T", "a", "b", "l", "e", "t">>,
     equivalentDrugs |-> <<"d7", "d3">>,
     substitutionRatio |-> <<5, 10>>, notes |-> None, isActive |-> TRUE]

\* inactive, for the same triple
RuleInactive ==
    [activeMolecule |-> <<"P", "a", "r", "a", "c", "e", "t", "a", "m", "o", "l">>, dosage |-> <<"5", "0", "0", "m", "g">>, dosageForm |-> <<"T", "a", "b", "l", "e", "t">>,
     equivalentDrugs |-> <<"d8", "d4">>,
     substitutionRatio |-> <<2, 1>>, notes |-> Some(<<>>), isActive |-> FALSE]

RuleUniverse == {RuleParacetamol, RuleCrossClass, RuleInactive}

\* the sequences of at most n elements of S
SeqUpTo(S, n) == UNION {[1..k -> S] : k \in 0..n}

\* catalogs: the Drug identifier is unique
Catalogs ==
    {c \in SeqUpTo(DrugUniverse, MaxCatalog) :
        \A i, j \in 1..Len(c) : c[i].id = c[j].id => i = j}

RuleSets ==
    {r \in SeqUpTo(RuleUniverse, MaxRules) :
        \A i, j \in 1..Len(r) : r[i] = r[j] => i = j}

-----------------------------------------------------------------------------
(* The engine as a state machine                                           *)

\* no SubstitutionPanel is rendered
PanelNotMounted ==
    [targetDrug |-> None, allDrugs |-> <<>>, suggestions |-> <<>>,
     loading |-> FALSE, showUnavailable |-> FALSE, timers |-> <<>>]

\* constructor(drugs, rules = [])
Init ==
    /\ drugs \in Catalogs
    /\ substitutionRules \in RuleSets
    /\ targetDrug = None
    /\ availableOnly = TRUE
    /\ suggestions = <<>>
    /\ ruleBasedSuggestions = <<>>
    /\ result = <<>>
    /\ thrown = None
    /\ last = "constructor"
    /\ dataArguments = [by |-> "constructor", drugs |-> drugs, rules |-> substitutionRules,
                        replaced |-> None]
    /\ previous = None
    /\ dosageArgument = <<>>
    /\ parsedStrength = None
    /\ nameArguments = <<<<>>, <<>>>>
    /\ similarNames = None
    /\ panel = PanelNotMounted

\* Return with the seen-set of deduplicateAndSort kept from the call before
\* instead of created by each call
ReturnKeepingSeen(target, avail, call) ==
    LET seen == IF last = "findSubstitutes"
                THEN {result[i].drug.id : i \in 1..Len(result)}
                ELSE {}
        unseen(suggestion) == suggestion.drug.id \notin seen
    IN  /\ targetDrug' = Some(target)
        /\ availableOnly' = avail
        /\ suggestions' = call.suggestions
        /\ ruleBasedSuggestions' = call.ruleBasedSuggestions
        /\ result' = SelectSeq(call.result, unseen)
        /\ thrown' = None
        /\ last' = "findSubstitutes"
        /\ previous' = IF /\ last = "findSubstitutes"
                          /\ thrown = None
                          /\ targetDrug = Some(target)
                          /\ availableOnly = avail
                       THEN Some(result)
                       ELSE None
        /\ UNCHANGED <<drugs, substitutionRules, dataArguments, dosageArgument, parsedStrength,
                   nameArguments, similarNames, panel>>

\* Return with the search pool assigned to this.drugs
ReturnRebindingPool(target, avail, call) ==
    /\ targetDrug' = Some(target)
    /\ availableOnly' = avail
    /\ suggestions' = call.suggestions
    /\ ruleBasedSuggestions' = call.ruleBasedSuggestions
    /\ result' = call.result
    /\ thrown' = None
    /\ last' = "findSubstitutes"
    /\ previous' = IF /\ last = "findSubstitutes"
                      /\ thrown = None
                      /\ targetDrug = Some(target)
                      /\ availableOnly = avail
                   THEN Some(result)
                   ELSE None
    /\ drugs' = searchPool(drugs, target, avail)
    /\ UNCHANGED <<substitutionRules, dataArguments, dosageArgument, parsedStrength,
                   nameArguments, similarNames, panel>>

\* a findSubstitutes call returns
Return(target, avail, call) ==
    /\ targetDrug' = Some(target)
    /\ availableOnly' = avail
    /\ suggestions' = call.suggestions
    /\ ruleBasedSuggestions' = call.ruleBasedSuggestions
    /\ result' = call.result
    /\ thrown' = None
    /\ last' = "findSubstitutes"
    /\ previous' = IF /\ last = "findSubstitutes"
                      /\ thrown = None
                      /\ targetDrug = Some(target)
                      /\ availableOnly = avail
                   THEN Some(result)
                   ELSE None
    /\ UNCHANGED <<drugs, substitutionRules, dataArguments, dosageArgument, parsedStrength,
                   nameArguments, similarNames, panel>>

\* findSubstitutes(targetDrug, availableOnly = true).  A call is taken on an
\* engine as the constructor or updateData left it, and once more with the
\* same arguments.  A call leaves no field of the engine changed, so any
\* other sequence of calls ends in a state one of these calls ends in; those
\* sequences are left out.
FindSubstitutes ==
    \E target \in Targets, avail \in BOOLEAN :
        /\ last = "findSubstitutes" =>
               /\ previous = None
               /\ thrown = None
               /\ targetDrug = Some(target)
               /\ availableOnly = avail
        /\ Return(target, avail, findSubstitutes(drugs, substitutionRules, target, avail))

\* findSubstitutes called with null or undefined for targetDrug, or with an
\* object without the Drug fields: the first callback that reaches past a
\* short-circuit dereferences the target (lines 449-450, 454, 625-627) and
\* the call ends with a TypeError; when no callback does (no drug passes the
\* stock test and no rule is active) the passes run on empty arrays and the
\* call returns the empty array
dereferencesTarget(ds, rules, avail) ==
    \/ \E i \in 1..Len(ds) : avail => ds[i].stockLevel > 0
    \/ \E r \in 1..Len(rules) : rules[r].isActive

FindSubstitutesWithoutTarget ==
    \E avail \in BOOLEAN :
        /\ targetDrug' = None
        /\ availableOnly' = avail
        /\ suggestions' = <<>>
        /\ ruleBasedSuggestions' = <<>>
        /\ result' = deduplicateAndSort(<<>>)
        /\ thrown' = IF dereferencesTarget(drugs, substitutionRules, avail)
                     THEN Some("TypeError")
                     ELSE None
        /\ last' = "findSubstitutes"
        /\ previous' = None
        /\ UNCHANGED <<drugs, substitutionRules, dataArguments, dosageArgument, parsedStrength,
                   nameArguments, similarNames, panel>>

\* the rules argument of updateData: omitted, or a rule set
RuleArguments == {None} \cup {Some(r) : r \in {s \in RuleSets : Len(s) <= 1}}

\* rules: SubstitutionRule[] = [], the value the parameter takes
rulesParameter(argument) == IF argument = None THEN <<>> ELSE argument[1]

\* updateData that adds the rules it is given to the bound rules
UpdateDataAddingRules ==
    \E newDrugs \in {c \in Catalogs : Len(c) <= 1}, newRules \in RuleArguments :
        /\ drugs' = newDrugs
        /\ substitutionRules' = substitutionRules \o rulesParameter(newRules)
        /\ targetDrug' = None
        /\ availableOnly' = TRUE
        /\ suggestions' = <<>>
        /\ ruleBasedSuggestions' = <<>>
        /\ result' = <<>>
        /\ thrown' = None
        /\ last' = "updateData"
        /\ dataArguments' = [by |-> "updateData", drugs |-> newDrugs,
                             rules |-> rulesParameter(newRules),
                             replaced |-> IF newRules = None THEN Some(substitutionRules)
                                          ELSE None]
        /\ previous' = None
        /\ UNCHANGED <<dosageArgument, parsedStrength,
                   nameArguments, similarNames, panel>>

\* updateData that keeps the bound rules when it is given no rule
UpdateDataKeepingRules ==
    \E newDrugs \in {c \in Catalogs : Len(c) <= 1}, newRules \in RuleArguments :
        /\ drugs' = newDrugs
        /\ substitutionRules' = IF rulesParameter(newRules) = <<>> THEN substitutionRules
                                ELSE rulesParameter(newRules)
        /\ targetDrug' = None
        /\ availableOnly' = TRUE
        /\ suggestions' = <<>>
        /\ ruleBasedSuggestions' = <<>>
        /\ result' = <<>>
        /\ thrown' = None
        /\ last' = "updateData"
        /\ dataArguments' = [by |-> "updateData", drugs |-> newDrugs,
                             rules |-> rulesParameter(newRules),
                             replaced |-> IF newRules = None THEN Some(substitutionRules)
                                          ELSE None]
        /\ previous' = None
        /\ UNCHANGED <<dosageArgument, parsedStrength,
                   nameArguments, similarNames, panel>>

\* updateData(drugs, rules = []); the call returns nothing
UpdateData ==
    \E newDrugs \in {c \in Catalogs : Len(c) <= 1}, newRules \in RuleArguments :
        /\ drugs' = newDrugs
        /\ substitutionRules' = rulesParameter(newRules)
        /\ targetDrug' = None
        /\ availableOnly' = TRUE
        /\ suggestions' = <<>>
        /\ ruleBasedSuggestions' = <<>>
        /\ result' = <<>>
        /\ thrown' = None
        /\ last' = "updateData"
        /\ dataArguments' = [by |-> "updateData", drugs |-> newDrugs,
                             rules |-> rulesParameter(newRules),
                             replaced |-> IF newRules = None THEN Some(substitutionRules)
                                          ELSE None]
        /\ previous' = None
        /\ UNCHANGED <<dosageArgument, parsedStrength,
                   nameArguments, similarNames, panel>>

Next == FindSubstitutes \/ FindSubstitutesWithoutTarget \/ UpdateData

Spec == Init /\ [][Next]_vars

-----------------------------------------------------------------------------
(* parseStrength on its own: the dosage strings it is applied to           *)

\* decimal numbers as a dosage writes them, with their values
DosageNumbers ==
    {[text |-> <<"5", "0", "0">>,  value |-> <<500, 1>>],
     [text |-> <<"5", "0">>,   value |-> <<50, 1>>],
     [text |-> <<"5">>,    value |-> <<5, 1>>],
     [text |-> <<"1">>,    value |-> <<1, 1>>],
     [text |-> <<"0">>,    value |-> <<0, 1>>],
     [text |-> <<"0", ".", "5">>,  value |-> <<1, 2>>],
     [text |-> <<"2", ".", "5">>,  value |-> <<5, 2>>],
     [text |-> <<"0", ".", "2", "5">>, value |-> <<1, 4>>]}

\* what a dosage writes between the number and the unit
DosageBlanks == {<<>>, <<" ">>}

\* the five units in lower case, in upper case and in mixed case, with the
\* factor that converts to milligrams; the upper case of U+00B5 is U+039C
DosageUnits ==
    {[text |-> <<"m", "g">>,  factor |-> <<1, 1>>],
     [text |-> <<"M", "G">>,  factor |-> <<1, 1>>],
     [text |-> <<"g">>,   factor |-> <<1000, 1>>],
     [text |-> <<"G">>,   factor |-> <<1000, 1>>],
     [text |-> <<"m", "l">>,  factor |-> <<1, 1>>],
     [text |-> <<"m", "L">>,  factor |-> <<1, 1>>],
     [text |-> <<"m", "c", "g">>, factor |-> <<1, 1000>>],
     [text |-> <<"M", "c", "g">>, factor |-> <<1, 1000>>],
     [text |-> <<"µ", "g">>,  factor |-> <<1, 1000>>],
     [text |-> <<"µ", "G">>,  factor |-> <<1, 1000>>],
     [text |-> <<"Μ", "G">>,  factor |-> <<1, 1000>>]}

\* dosages without a number followed by a unit
UnitlessDosages ==
    {<<"a", "s", " ", "n", "e", "e", "d", "e", "d">>, <<>>, <<"5", "0", "0">>, <<"m", "g">>, <<"2", " ", "t", "a", "b", "l", "e", "t", "s">>, <<"1", "0", "%">>, <<"5", " ", "l">>, <<"f", "i", "v", "e", " ", "m", "g">>}

Dosages ==
    {n.text \o b \o u.text : n \in DosageNumbers, b \in DosageBlanks, u \in DosageUnits}
        \cup UnitlessDosages

InitParse ==
    /\ drugs = <<>>
    /\ substitutionRules = <<>>
    /\ targetDrug = None
    /\ availableOnly = TRUE
    /\ suggestions = <<>>
    /\ ruleBasedSuggestions = <<>>
    /\ result = <<>>
    /\ thrown = None
    /\ last = "constructor"
    /\ dataArguments = [by |-> "constructor", drugs |-> <<>>, rules |-> <<>>,
                        replaced |-> None]
    /\ previous = None
    /\ dosageArgument \in Dosages
    /\ parsedStrength = None
    /\ nameArguments = <<<<>>, <<>>>>
    /\ similarNames = None
    /\ panel = PanelNotMounted

\* parseStrength(dosage)
ParseStrength ==
    /\ parsedStrength' = parseStrength(dosageArgument)
    /\ last' = "parseStrength"
    /\ UNCHANGED <<drugs, substitutionRules, targetDrug, availableOnly, suggestions,
                   ruleBasedSuggestions, result, thrown, dataArguments, previous, dosageArgument,
                   nameArguments, similarNames, panel>>

NextParse == ParseStrength

SpecParse == InitParse /\ [][NextParse]_vars

-----------------------------------------------------------------------------
(* Properties of the value findSubstitutes returns                         *)

-----------------------------------------------------------------------------
(* haveSimilarNames on its own: the names it is applied to                 *)

\* generic names in lower, upper and mixed case, with blanks, digits and
\* punctuation, with a letter outside a-z, shorter and longer than four
GenericNames ==
    {<<>>, <<"a", "b">>, <<"a", "b", "c">>, <<"a", "b", "c", "d">>, <<"a", "b", "c", "d", "e">>, <<"x", "a", "b", "c", "d">>, <<"x", "x", "a", "b", "c">>, <<"a", "b", "d", "c">>,
     <<"A", "B", "C", "D">>, <<"a", "-", "b", " ", "c", "1", "d">>, <<"é", "a", "b", "c">>, <<"a", "b", "é", "c">>, <<"P", "a", "r", "a">>, <<"c", "e", "t", "a", "m", "o", "l">>,
     <<"P", "a", "r", "a", "c", "e", "t", "a", "m", "o", "l">>, <<"I", "b", "u", "p", "r", "o", "f", "e", "n", "/", "P", "a", "r", "a", "c", "e", "t", "a", "m", "o", "l">>, <<"A", "P", "A", "P">>, <<"D", "i", "g", "o", "x", "i", "n">>}

InitNames ==
    /\ drugs = <<>>
    /\ substitutionRules = <<>>
    /\ targetDrug = None
    /\ availableOnly = TRUE
    /\ suggestions = <<>>
    /\ ruleBasedSuggestions = <<>>
    /\ result = <<>>
    /\ thrown = None
    /\ last = "constructor"
    /\ dataArguments = [by |-> "constructor", drugs |-> <<>>, rules |-> <<>>,
                        replaced |-> None]
    /\ previous = None
    /\ dosageArgument = <<>>
    /\ parsedStrength = None
    /\ nameArguments \in GenericNames \X GenericNames
    /\ similarNames = None
    /\ panel = PanelNotMounted

\* haveSimilarNames(name1, name2)
HaveSimilarNames ==
    /\ similarNames' = Some(haveSimilarNames(nameArguments[1], nameArguments[2]))
    /\ last' = "haveSimilarNames"
    /\ UNCHANGED <<drugs, substitutionRules, targetDrug, availableOnly, suggestions,
                   ruleBasedSuggestions, result, thrown, dataArguments, previous,
                   dosageArgument, parsedStrength, nameArguments, panel>>

NextNames == HaveSimilarNames

SpecNames == InitNames /\ [][NextNames]_vars

-----------------------------------------------------------------------------
(* applySubstitutionRules on its own: the rules it is applied to           *)

\* substitution ratios: 1, 0.5, 2, 1.5 and 0
SubstitutionRatios == {<<1, 1>>, <<1, 2>>, <<2, 1>>, <<3, 2>>, <<0, 1>>}

\* notes: missing, empty and two texts
RuleNotes == {None, Some(<<>>), Some(<<"A", "p", "p", "r", "o", "v", "e", "d">>), Some(<<"S", "e", "e", " ", "l", "e", "a", "f", "l", "e", "t">>)}

\* rules for the triple of Panadol that list two drugs, the target itself
\* and an id no drug has
RulesForPanadol ==
    {[activeMolecule |-> <<"p", "a", "r", "a", "c", "e", "t", "a", "m", "o", "l">>, dosage |-> <<"5", "0", "0", "m", "g">>, dosageForm |-> <<"T", "A", "B", "L", "E", "T">>,
      equivalentDrugs |-> <<"d3", "d9", "d1", "d4">>,
      substitutionRatio |-> ratio, notes |-> notes, isActive |-> active] :
        ratio \in SubstitutionRatios, notes \in RuleNotes, active \in BOOLEAN}

InitRules ==
    /\ drugs \in {c \in SeqUpTo({ParacetamolSyrup, Calpol}, 2) :
                     \A i, j \in 1..Len(c) : c[i].id = c[j].id => i = j}
    /\ substitutionRules \in {<<rule>> : rule \in RulesForPanadol}
    /\ targetDrug = Some(Panadol)
    /\ availableOnly \in BOOLEAN
    /\ suggestions = <<>>
    /\ ruleBasedSuggestions = <<>>
    /\ result = <<>>
    /\ thrown = None
    /\ last = "constructor"
    /\ dataArguments = [by |-> "constructor", drugs |-> drugs, rules |-> substitutionRules,
                        replaced |-> None]
    /\ previous = None
    /\ dosageArgument = <<>>
    /\ parsedStrength = None
    /\ nameArguments = <<<<>>, <<>>>>
    /\ similarNames = None
    /\ panel = PanelNotMounted

\* applySubstitutionRules(target, searchPool), as line 503 calls it
ApplySubstitutionRules ==
    /\ ruleBasedSuggestions' =
           applySubstitutionRules(substitutionRules, targetDrug[1],
                                  searchPool(drugs, targetDrug[1], availableOnly))
    /\ last' = "applySubstitutionRules"
    /\ UNCHANGED <<drugs, substitutionRules, targetDrug, availableOnly, suggestions,
                   result, thrown, dataArguments, previous, dosageArgument,
                   parsedStrength, nameArguments, similarNames, panel>>

NextRules == ApplySubstitutionRules

SpecRules == InitRules /\ [][NextRules]_vars

-----------------------------------------------------------------------------
(* The engine on catalogs of one more drug, of the four drugs that the     *)
(* four passes select for Panadol                                          *)

LargerCatalogs ==
    {c \in SeqUpTo({GenericParacetamol, Calpol, Brufen, GenericDigoxin}, MaxCatalog + 1) :
        \A i, j \in 1..Len(c) : c[i].id = c[j].id => i = j}

InitLarger ==
    /\ drugs \in LargerCatalogs
    /\ substitutionRules \in RuleSets
    /\ targetDrug = None
    /\ availableOnly = TRUE
    /\ suggestions = <<>>
    /\ ruleBasedSuggestions = <<>>
    /\ result = <<>>
    /\ thrown = None
    /\ last = "constructor"
    /\ dataArguments = [by |-> "constructor", drugs |-> drugs, rules |-> substitutionRules,
                        replaced |-> None]
    /\ previous = None
    /\ dosageArgument = <<>>
    /\ parsedStrength = None
    /\ nameArguments = <<<<>>, <<>>>>
    /\ similarNames = None
    /\ panel = PanelNotMounted

SpecLarger == InitLarger /\ [][Next]_vars

-----------------------------------------------------------------------------
(* The SubstitutionPanel component                                         *)

\* the number of timers that can be pending at once
MaxTimers == 2

\* the values of the prop targetDrug
PanelTargets == {None, Some(Panadol), Some(Brufen)}

\* the values of the prop allDrugs
PanelCatalogs == {<<>>, <<GenericParacetamol>>, <<Calpol>>}

\* every variable but panel and last
engineVars ==
    <<drugs, substitutionRules, targetDrug, availableOnly, suggestions,
      ruleBasedSuggestions, result, thrown, dataArguments, previous,
      dosageArgument, parsedStrength, nameArguments, similarNames>>

\* the effect of lines 29-43, run after a render with changed dependencies:
\* it clears the suggestions for no target and otherwise sets loading and
\* schedules a timer whose callback closes over the three dependencies
effect(p) ==
    IF p.targetDrug = None
    THEN [p EXCEPT !.suggestions = <<>>]
    ELSE [p EXCEPT !.loading = TRUE,
                   !.timers = Append(@, [targetDrug      |-> p.targetDrug[1],
                                         allDrugs        |-> p.allDrugs,
                                         showUnavailable |-> p.showUnavailable])]

\* the effect schedules no timer, or there is room for one
canRunEffect(p) == p.targetDrug = None \/ Len(p.timers) < MaxTimers

\* lines 25-27 and the effect after the first render
InitPanel ==
    /\ drugs = <<>>
    /\ substitutionRules = <<>>
    /\ targetDrug = None
    /\ availableOnly = TRUE
    /\ suggestions = <<>>
    /\ ruleBasedSuggestions = <<>>
    /\ result = <<>>
    /\ thrown = None
    /\ last = "SubstitutionPanel"
    /\ dataArguments = [by |-> "constructor", drugs |-> <<>>, rules |-> <<>>,
                        replaced |-> None]
    /\ previous = None
    /\ dosageArgument = <<>>
    /\ parsedStrength = None
    /\ nameArguments = <<<<>>, <<>>>>
    /\ similarNames = None
    /\ \E target \in PanelTargets, catalog \in PanelCatalogs :
          panel = effect([targetDrug |-> target, allDrugs |-> catalog,
                          suggestions |-> <<>>, loading |-> FALSE,
                          showUnavailable |-> FALSE, timers |-> <<>>])

\* the parent renders the panel with another targetDrug
ChangeTargetDrug ==
    \E target \in PanelTargets :
        /\ target # panel.targetDrug
        /\ canRunEffect([panel EXCEPT !.targetDrug = target])
        /\ panel' = effect([panel EXCEPT !.targetDrug = target])
        /\ last' = "targetDrug"
        /\ UNCHANGED engineVars

\* the parent renders the panel with another allDrugs
ChangeAllDrugs ==
    \E catalog \in PanelCatalogs :
        /\ catalog # panel.allDrugs
        /\ canRunEffect(panel)
        /\ panel' = effect([panel EXCEPT !.allDrugs = catalog])
        /\ last' = "allDrugs"
        /\ UNCHANGED engineVars

\* the toggle button: setShowUnavailable(!showUnavailable); the panel
\* renders it for a target drug only (line 45)
ToggleShowUnavailable ==
    /\ panel.targetDrug # None
    /\ canRunEffect(panel)
    /\ panel' = effect([panel EXCEPT !.showUnavailable = ~panel.showUnavailable])
    /\ last' = "setShowUnavailable"
    /\ UNCHANGED engineVars

\* the callback of lines 38-42; the timers have the same delay and fire in
\* the order they were scheduled in
TimerFires ==
    /\ panel.timers # <<>>
    /\ LET timer == Head(panel.timers)
       IN  panel' = [panel EXCEPT
                        !.suggestions = findSubstitutes(timer.allDrugs, <<>>, timer.targetDrug,
                                                        ~timer.showUnavailable).result,
                        !.loading = FALSE,
                        !.timers = Tail(@)]
    /\ last' = "setTimeout"
    /\ UNCHANGED engineVars

NextPanel == ChangeTargetDrug \/ ChangeAllDrugs \/ ToggleShowUnavailable \/ TimerFires

SpecPanel == InitPanel /\ [][NextPanel]_vars

\* the state is the one a findSubstitutes call for a target drug returned in
Returned == last = "findSubstitutes" /\ targetDrug # None

\* the drug ids a sequence of suggestions references
idsOf(s) == {s[i].drug.id : i \in 1..Len(s)}

\* the position of the first suggestion for the drug id
firstIndex(s, id) == least({i \in 1..Len(s) : s[i].drug.id = id})

\* the number of suggestions for the drug id
occurrences(s, id) == Cardinality({i \in 1..Len(s) : s[i].drug.id = id})

\* what the three matching passes pushed: suggestions without the rule pass
matchedSuggestions == SubSeq(suggestions, 1, Len(suggestions) - Len(ruleBasedSuggestions))

\* the rules of the bound rule set that are active and carry the target's triple
activeMatchingRules ==
    {r \in 1..Len(substitutionRules) :
        /\ substitutionRules[r].isActive
        /\ toLowerCase(substitutionRules[r].activeMolecule) = toLowerCase(targetDrug[1].activeMolecule)
        /\ substitutionRules[r].dosage = targetDrug[1].dosage
        /\ toLowerCase(substitutionRules[r].dosageForm) = toLowerCase(targetDrug[1].dosageForm)}

\* the candidates of the call: the catalog without the target and, when
\* availableOnly, without the drugs out of stock
candidatePool ==
    {drugs[i] : i \in {j \in 1..Len(drugs) :
        /\ drugs[j].id # targetDrug[1].id
        /\ availableOnly => drugs[j].stockLevel > 0}}

(* C1: no suggestion findSubstitutes returns references a drug whose id is *)
(* the target's id, also when an active matching rule lists the target.    *)
C1_TargetNeverSuggested ==
    Returned => \A k \in 1..Len(result) : result[k].drug.id # targetDrug[1].id

\* the target is in the catalog, an active matching rule lists its id, and
\* the call returned suggestions
C1_Witness ==
    /\ Returned
    /\ result # <<>>
    /\ \E i \in 1..Len(drugs) : drugs[i].id = targetDrug[1].id
    /\ \E r \in activeMatchingRules :
          arrayIncludes(substitutionRules[r].equivalentDrugs, targetDrug[1].id)

(* C2: no two suggestions of the returned sequence reference the same drug *)
(* id, whatever produced the duplicates.                                   *)
C2_NoDuplicateIds ==
    Returned =>
        \A i, j \in 1..Len(result) : result[i].drug.id = result[j].drug.id => i = j

\* one drug was pushed by a matching pass, by two rules, and twice by one rule
C2_Witness ==
    /\ Returned
    /\ Cardinality(activeMatchingRules) = 2
    /\ \E id \in idsOf(matchedSuggestions) : occurrences(ruleBasedSuggestions, id) >= 3

(* C3: the returned sequence is sorted by non-increasing confidence.       *)
C3_SortedByConfidence ==
    Returned =>
        \A i, j \in 1..Len(result) : i < j => result[i].confidence >= result[j].confidence

\* a suggestion pushed later has the higher confidence: the sort moved it
C3_Witness ==
    /\ Returned
    /\ \E i, j \in 1..Len(suggestions) :
          /\ i < j
          /\ suggestions[i].drug.id # suggestions[j].drug.id
          /\ firstIndex(suggestions, suggestions[j].drug.id) = j
          /\ suggestions[i].confidence < suggestions[j].confidence

\* the ids of the pool's drugs that the active matching rules list, in the
\* order of the rules and, within a rule, of its equivalentDrugs
ruleDiscoveryOrder ==
    LET inPool(id) == \E d \in candidatePool : d.id = id
    IN  flatten([r \in 1..Len(substitutionRules) |->
                    IF r \in activeMatchingRules
                    THEN SelectSeq(substitutionRules[r].equivalentDrugs, inPool)
                    ELSE <<>>])

\* the rank of a matching pass in the concatenation
passRank(matchType) ==
    IF matchType = "exact" THEN 1 ELSE IF matchType = "equivalent" THEN 2 ELSE 3

\* the position in the catalog of the drug with the id
catalogIndex(id) == least({i \in 1..Len(drugs) : drugs[i].id = id})

(* C4: the final sort is stable: two returned suggestions of equal         *)
(* confidence appear in their discovery order, which is the concatenation  *)
(* exact, equivalent, similar, rule pass, each matching pass in catalog    *)
(* order and the rule pass in rule order, then in the order of the ids.    *)
C4_StableInDiscoveryOrder ==
    Returned =>
        /\ \A i, j \in 1..Len(result) :
              (i < j /\ result[i].confidence = result[j].confidence)
                  => firstIndex(suggestions, result[i].drug.id)
                        < firstIndex(suggestions, result[j].drug.id)
        /\ suggestions = matchedSuggestions \o ruleBasedSuggestions
        /\ \A i, j \in 1..Len(matchedSuggestions) :
              i < j =>
                  \/ passRank(matchedSuggestions[i].matchType)
                        < passRank(matchedSuggestions[j].matchType)
                  \/ /\ matchedSuggestions[i].matchType = matchedSuggestions[j].matchType
                     /\ catalogIndex(matchedSuggestions[i].drug.id)
                           < catalogIndex(matchedSuggestions[j].drug.id)
        /\ [k \in 1..Len(ruleBasedSuggestions) |-> ruleBasedSuggestions[k].drug.id]
              = ruleDiscoveryOrder

\* the result holds a tie between a suggestion of a matching pass and one
\* of the rule pass whose drug comes earlier in the catalog
C4_Witness ==
    /\ Returned
    /\ \E i, j \in 1..Len(result) :
          /\ i < j
          /\ result[i].confidence = result[j].confidence
          /\ result[i].drug.id \in idsOf(matchedSuggestions)
          /\ result[j].drug.id \notin idsOf(matchedSuggestions)
          /\ catalogIndex(result[j].drug.id) < catalogIndex(result[i].drug.id)

(* C5: of the suggestions produced for one drug the returned sequence      *)
(* holds the first in pass order, with its matchType, confidence, reason,  *)
(* dosageAdjustment and warnings; the later ones are discarded.            *)
C5_FirstProducedKept ==
    Returned =>
        /\ idsOf(result) = idsOf(suggestions)
        /\ Len(result) = Cardinality(idsOf(suggestions))
        /\ \A k \in 1..Len(result) :
              result[k] = suggestions[firstIndex(suggestions, result[k].drug.id)]

\* a drug was pushed by a matching pass and, with another content, by a rule
C5_Witness ==
    /\ Returned
    /\ \E i \in 1..Len(matchedSuggestions), j \in 1..Len(ruleBasedSuggestions) :
          /\ matchedSuggestions[i].drug.id = ruleBasedSuggestions[j].drug.id
          /\ matchedSuggestions[i].confidence # ruleBasedSuggestions[j].confidence
          /\ matchedSuggestions[i].matchType # ruleBasedSuggestions[j].matchType

\* the ids rule r lists that are ids of drugs of the candidate pool
listedInPool(r) ==
    {substitutionRules[r].equivalentDrugs[n] : n \in 1..Len(substitutionRules[r].equivalentDrugs)}
        \cap {d.id : d \in candidatePool}

\* the notes of a rule as text, empty when the rule has none
notesText(rule) == IF rule.notes = None THEN <<>> ELSE rule.notes[1]

\* the first active matching rule that lists the id
firstRuleListing(id) == least({r \in activeMatchingRules : id \in listedInPool(r)})

(* C6, as stated: a pool drug that an active matching rule lists is        *)
(* returned with match type 'equivalent', confidence 85 and the rule's     *)
(* notes in its reason, even if another pass selects the drug as well.     *)
C6_RuleEntryAlwaysReturned ==
    Returned =>
        \A r \in activeMatchingRules : \A id \in listedInPool(r) :
            \E k \in 1..Len(result) :
                /\ result[k].drug.id = id
                /\ result[k].matchType = "equivalent"
                /\ result[k].confidence = 85
                /\ includes(result[k].reason, notesText(substitutionRules[r]))

(* C6, amended: a pool drug that an active matching rule lists is always   *)
(* returned.  If none of the exact, equivalent and similar passes selects  *)
(* it, it has match type 'equivalent', confidence 85 and the reason        *)
(* "Custom substitution rule: " followed by the notes of the first active  *)
(* matching rule listing it (by "Pharmacy-approved equivalent" when that   *)
(* rule has no notes).  If one of those passes selects it, the suggestion  *)
(* returned is that pass' and the rule's is discarded.                     *)
C6_RuleEntryUnlessMatchedEarlier ==
    Returned =>
        \A r \in activeMatchingRules : \A id \in listedInPool(r) :
            \E k \in 1..Len(result) :
                /\ result[k].drug.id = id
                /\ IF id \in idsOf(matchedSuggestions)
                   THEN result[k] = matchedSuggestions[firstIndex(matchedSuggestions, id)]
                   ELSE /\ result[k].matchType = "equivalent"
                        /\ result[k].confidence = 85
                        /\ result[k].reason =
                              <<"C", "u", "s", "t", "o", "m", " ", "s", "u", "b", "s", "t", "i", "t", "u", "t", "i", "o", "n", " ", "r", "u", "l", "e", ":", " ">>
                              \o (IF notesText(substitutionRules[firstRuleListing(id)]) = <<>>
                                  THEN <<"P", "h", "a", "r", "m", "a", "c", "y", "-", "a", "p", "p", "r", "o", "v", "e", "d", " ", "e", "q", "u", "i", "v", "a", "l", "e", "n", "t">>
                                  ELSE notesText(substitutionRules[firstRuleListing(id)]))

\* a rule with notes lists a drug that no matching pass selects and a drug
\* that Pass 2 selects
C6_Witness ==
    /\ Returned
    /\ \E r \in activeMatchingRules :
          /\ notesText(substitutionRules[r]) # <<>>
          /\ \E id \in listedInPool(r) : id \notin idsOf(matchedSuggestions)
          /\ \E i \in 1..Len(matchedSuggestions) :
                /\ matchedSuggestions[i].drug.id \in listedInPool(r)
                /\ matchedSuggestions[i].matchType = "equivalent"

\* same active molecule and dosage form up to case, same dosage string
sameTriple(a, b) ==
    /\ toLowerCase(a.activeMolecule) = toLowerCase(b.activeMolecule)
    /\ a.dosage = b.dosage
    /\ toLowerCase(a.dosageForm) = toLowerCase(b.dosageForm)

(* C7: a pool candidate with the target's molecule (up to case), dosage    *)
(* string and dosage form (up to case) is returned as 'exact' with         *)
(* confidence 95 whatever its other attributes, and every 'exact'          *)
(* suggestion satisfies that triple condition.                             *)
C7_ExactIffSameTriple ==
    Returned =>
        /\ \A d \in candidatePool :
              sameTriple(d, targetDrug[1]) =>
                  \E k \in 1..Len(result) :
                      /\ result[k].drug = d
                      /\ result[k].matchType = "exact"
                      /\ result[k].confidence = 95
        /\ \A k \in 1..Len(result) :
              result[k].matchType = "exact" => sameTriple(result[k].drug, targetDrug[1])

\* an exact suggestion whose drug differs from the target in brand name,
\* manufacturer and the case of molecule and form, beside a candidate with
\* the target's molecule that is not exact
C7_Witness ==
    /\ Returned
    /\ \E k \in 1..Len(result) :
          /\ result[k].matchType = "exact"
          /\ result[k].drug.brandName # targetDrug[1].brandName
          /\ result[k].drug.manufacturer # targetDrug[1].manufacturer
          /\ result[k].drug.activeMolecule # targetDrug[1].activeMolecule
          /\ result[k].drug.dosageForm # targetDrug[1].dosageForm
    /\ \E k \in 1..Len(result) :
          /\ result[k].matchType = "equivalent"
          /\ toLowerCase(result[k].drug.activeMolecule) = toLowerCase(targetDrug[1].activeMolecule)

(* C8: every returned 'equivalent' suggestion has a confidence in 80..90.  *)
C8_EquivalentWithin80And90 ==
    Returned =>
        \A k \in 1..Len(result) :
            result[k].matchType = "equivalent" =>
                (80 <= result[k].confidence /\ result[k].confidence <= 90)

\* Pass 2 returned a candidate whose bonuses add up to more than 90, beside
\* an equivalent suggestion of the rule pass
C8_Witness ==
    /\ Returned
    /\ \E k \in 1..Len(result) :
          /\ result[k].matchType = "equivalent"
          /\ result[k] \in {matchedSuggestions[n] : n \in 1..Len(matchedSuggestions)}
          /\ equivalentConfidenceUncapped(targetDrug[1], result[k].drug) > 90
          /\ result[k].confidence = 90
    /\ \E k \in 1..Len(result) :
          /\ result[k].matchType = "equivalent"
          /\ result[k] \in {ruleBasedSuggestions[n] : n \in 1..Len(ruleBasedSuggestions)}
          /\ result[k].confidence = 85

(* C9: every returned 'similar' suggestion has a confidence in 30..75, and *)
(* no candidate scoring below 30 is returned as 'similar'.                 *)
C9_SimilarWithin30And75 ==
    Returned =>
        \A k \in 1..Len(result) :
            result[k].matchType = "similar" =>
                /\ 30 <= result[k].confidence
                /\ result[k].confidence <= 75
                /\ calculateTherapeuticSimilarity(targetDrug[1], result[k].drug) >= 30

\* similar suggestions at the cap and below it
C9_Witness ==
    /\ Returned
    /\ \E i, j \in 1..Len(result) :
          /\ result[i].matchType = "similar"
          /\ result[i].confidence = 75
          /\ result[j].matchType = "similar"
          /\ result[j].confidence < 75

(* C10: every suggestion of the rule pass has confidence 85 and match type *)
(* 'equivalent', whatever the rule's ratio and notes and the candidate.    *)
C10_RulePassConfidence85 ==
    Returned =>
        \A i \in 1..Len(ruleBasedSuggestions) :
            /\ ruleBasedSuggestions[i].confidence = 85
            /\ ruleBasedSuggestions[i].matchType = "equivalent"

\* the rule pass pushed a suggestion with a dose factor and one without,
\* with different reasons, for drugs of different categories
C10_Witness ==
    /\ Returned
    /\ \E i, j \in 1..Len(ruleBasedSuggestions) :
          /\ ruleBasedSuggestions[i].dosageAdjustment # None
          /\ ruleBasedSuggestions[j].dosageAdjustment = None
          /\ ruleBasedSuggestions[i].reason # ruleBasedSuggestions[j].reason
          /\ ruleBasedSuggestions[i].drug.category # ruleBasedSuggestions[j].drug.category

\* the catalog with every drug in stock
restocked(ds) == [i \in 1..Len(ds) |-> [ds[i] EXCEPT !.stockLevel = 1]]

\* the suggestions with the stock level of their drugs masked
stockMasked(s) == [i \in 1..Len(s) |-> [s[i] EXCEPT !.drug.stockLevel = 1]]

(* C11: with availableOnly, every returned suggestion is for a drug with   *)
(* stockLevel > 0, so no pass, the rule pass included, returns a drug out  *)
(* of stock; without availableOnly the call returns what it returns on the *)
(* same catalog with every drug in stock.                                  *)
C11_AvailableOnlyInStock ==
    Returned =>
        IF availableOnly
        THEN \A k \in 1..Len(result) : result[k].drug.stockLevel > 0
        ELSE stockMasked(result)
             = stockMasked(findSubstitutes(restocked(drugs), substitutionRules,
                                           targetDrug[1], FALSE).result)

\* availableOnly, and the catalog holds a drug out of stock that has the
\* target's triple and that an active matching rule lists, beside a drug
\* that is returned
C11_Witness ==
    /\ Returned
    /\ availableOnly
    /\ result # <<>>
    /\ \E i \in 1..Len(drugs) :
          /\ drugs[i].stockLevel = 0
          /\ drugs[i].id # targetDrug[1].id
          /\ sameTriple(drugs[i], targetDrug[1])
          /\ \E r \in activeMatchingRules :
                \E n \in 1..Len(substitutionRules[r].equivalentDrugs) :
                    substitutionRules[r].equivalentDrugs[n] = drugs[i].id

(* C12: a findSubstitutes call with a missing or malformed target fails    *)
(* with InvalidInput and computes no suggestions, whatever catalog and     *)
(* rule set are bound, and no call fails with anything but InvalidInput.   *)
C12_InvalidTargetFailsWithInvalidInput ==
    /\ (last = "findSubstitutes" /\ targetDrug = None) =>
           (thrown = Some("InvalidInput") /\ suggestions = <<>>)
    /\ thrown \in {None, Some("InvalidInput")}

\* the candidate qualifies for one of the four passes: same molecule as the
\* target (exact or equivalent), same category with another molecule
\* (similar), or listed by an active rule for the target's triple
qualifies(d) ==
    \/ toLowerCase(d.activeMolecule) = toLowerCase(targetDrug[1].activeMolecule)
    \/ toLowerCase(d.category) = toLowerCase(targetDrug[1].category)
    \/ \E r \in activeMatchingRules : d.id \in listedInPool(r)

(* C13: the drug ids of the output are exactly the ids of the pool         *)
(* candidates that qualify for at least one pass; when none qualifies, or  *)
(* the catalog is empty, the call returns the empty sequence, and the call *)
(* raises no error.                                                        *)
C13_OutputIsQualifyingCandidates ==
    Returned =>
        /\ idsOf(result) = {d.id : d \in {c \in candidatePool : qualifies(c)}}
        /\ (\A c \in candidatePool : ~qualifies(c)) => result = <<>>
        /\ thrown = None

\* the pool holds a candidate that qualifies and one that does not
C13_Witness ==
    /\ Returned
    /\ \E c, d \in candidatePool : qualifies(c) /\ ~qualifies(d)
    /\ Len(result) = 1

-----------------------------------------------------------------------------
(* Properties of the engine's bound state                                  *)

C15_UpdateDataRebindsBoth ==
    (Returned /\ dataArguments.by = "updateData") =>
        /\ result = findSubstitutes(dataArguments.drugs, dataArguments.rules,
                                    targetDrug[1], availableOnly).result
        /\ drugs = dataArguments.drugs
        /\ substitutionRules = dataArguments.rules

\* a call after an updateData that installed a catalog and a rule returned a
\* suggestion
C15_Witness ==
    /\ Returned
    /\ dataArguments.by = "updateData"
    /\ dataArguments.rules # <<>>
    /\ result # <<>>

(* C16: a findSubstitutes call leaves the bound catalog and the bound rule *)
(* set as they were: the same drugs and rules in the same order with the   *)
(* same fields.                                                            *)
C16_CallLeavesDataUnchanged ==
    [][last' = "findSubstitutes" =>
          (drugs' = drugs /\ substitutionRules' = substitutionRules)]_vars

\* after two calls in a row the catalog is the one the constructor received,
\* though the call returned its drugs in the opposite order
C16_Witness ==
    /\ Returned
    /\ previous # None
    /\ dataArguments.by = "constructor"
    /\ drugs = dataArguments.drugs
    /\ substitutionRules = dataArguments.rules
    /\ Len(drugs) = 2
    /\ Len(result) = 2
    /\ result[1].drug = drugs[2]
    /\ result[2].drug = drugs[1]

-----------------------------------------------------------------------------
(* Properties of parseStrength                                             *)

\* equality of the rationals a and b
sameNumber(a, b) == a[1] * b[2] = b[1] * a[2]

(* C17: parseStrength gives the number a dosage writes, in milligrams:     *)
(* times 1000 for g, divided by 1000 for mcg and µg, unchanged for mg and  *)
(* ml, the unit in any case; and it gives no value for a dosage without a  *)
(* number followed by a unit.                                              *)
C17_StrengthInMilligrams ==
    last = "parseStrength" =>
        /\ \A n \in DosageNumbers, b \in DosageBlanks, u \in DosageUnits :
              dosageArgument = n.text \o b \o u.text =>
                  /\ parsedStrength # None
                  /\ sameNumber(parsedStrength, <<n.value[1] * u.factor[1],
                                                  n.value[2] * u.factor[2]>>)
        /\ dosageArgument \in UnitlessDosages => parsedStrength = None

-----------------------------------------------------------------------------
(* Properties of the equivalent pass                                       *)

\* the suggestions Pass 2 pushed
pass2Suggestions ==
    {matchedSuggestions[i] : i \in {j \in 1..Len(matchedSuggestions) :
                                       matchedSuggestions[j].matchType = "equivalent"}}

\* the strength the target's dosage parses to, None when it does not parse
targetStrengthOf == parseStrength(targetDrug[1].dosage)

\* the text " ({candidate dosage} → equivalent to {target dosage})"
dosagePair(candidate) ==
    <<" ", "(">> \o candidate.dosage \o <<" ", "→", " ", "e", "q", "u", "i", "v", "a", "l", "e", "n", "t", " ", "t", "o", " ">> \o targetDrug[1].dosage \o <<")">>

\* p / q to one decimal: the nearest tenth, the larger one of two; the text
\* of an infinite quotient is "Infinity"
oneDecimal(p, q) ==
    IF q = 0 THEN <<"I", "n", "f", "i", "n", "i", "t", "y">>
    ELSE LET tenths == CHOOSE n \in 0..((10 * p) \div q) + 1 :
                           /\ (2 * n - 1) * q <= 20 * p
                           /\ 20 * p < (2 * n + 1) * q
         IN  natToString(tenths \div 10) \o <<".">> \o natToString(tenths % 10)

\* what the claim gives for target strength a and candidate strength b, with
\* ratio = a / b = p / q
claimedAdjustment(p, q, candidate) ==
    IF p > q
    THEN Some(<<"T", "a", "k", "e", " ">> \o oneDecimal(p, q) \o <<"x", " ", "t", "h", "e", " ", "u", "s", "u", "a", "l", " ", "d", "o", "s", "e">> \o dosagePair(candidate))
    ELSE Some(<<"T", "a", "k", "e", " ">> \o oneDecimal(q, p) \o <<"x", " ", "l", "e", "s", "s">> \o dosagePair(candidate))

\* the suggestion carries the adjustment the ratio of the strengths a and b gives
adjustedByRatio(s, a, b) ==
    a[1] * b[2] # a[2] * b[1] =>
        s.dosageAdjustment = claimedAdjustment(a[1] * b[2], a[2] * b[1], s.drug)

(* C18, as stated: a Pass 2 suggestion whose dosage and the target's both  *)
(* parse carries "Take {ratio}x the usual dose (...)" when ratio = target  *)
(* strength / candidate strength is above 1 and "Take {1/ratio}x less      *)
(* (...)" when it is below 1, to one decimal.                              *)
C18_AdjustmentForParsedStrengths ==
    Returned =>
        \A s \in pass2Suggestions :
            (targetStrengthOf # None /\ parseStrength(s.drug.dosage) # None) =>
                adjustedByRatio(s, targetStrengthOf, parseStrength(s.drug.dosage))

(* C18, amended: the same for a Pass 2 suggestion whose dosage and the     *)
(* target's both parse to a strength other than 0.                         *)
C18_AdjustmentForNonZeroStrengths ==
    Returned =>
        \A s \in pass2Suggestions :
            (truthy(targetStrengthOf) /\ truthy(parseStrength(s.drug.dosage))) =>
                adjustedByRatio(s, targetStrengthOf, parseStrength(s.drug.dosage))

\* the example of the claim beside a ratio that is rounded, both returned
C18_Witness ==
    /\ Returned
    /\ \E i, j \in 1..Len(result) :
          /\ result[i] \in pass2Suggestions
          /\ result[i].dosageAdjustment
                = Some(<<"T", "a", "k", "e", " ", "2", ".", "0", "x", " ", "t", "h", "e", " ", "u", "s", "u", "a", "l", " ", "d", "o", "s", "e", " ", "(", "2", "5", "0", "m", "g", " ", "→", " ", "e", "q", "u", "i", "v", "a", "l", "e", "n", "t", " ", "t", "o", " ", "5", "0", "0", "m", "g", ")">>)
          /\ result[j] \in pass2Suggestions
          /\ result[j].dosageAdjustment
                = Some(<<"T", "a", "k", "e", " ", "1", ".", "7", "x", " ", "t", "h", "e", " ", "u", "s", "u", "a", "l", " ", "d", "o", "s", "e", " ", "(", "0", ".", "3", "g", " ", "→", " ", "e", "q", "u", "i", "v", "a", "l", "e", "n", "t", " ", "t", "o", " ", "5", "0", "0", "m", "g", ")">>)

\* F: 10 if the dosage forms are equal up to case
formPoints(candidate) ==
    IF toLowerCase(candidate.dosageForm) = toLowerCase(targetDrug[1].dosageForm)
    THEN 10 ELSE 0

\* B: 5 if both brand names are non-empty or both are empty
brandPoints(candidate) ==
    IF (candidate.brandName = "") = (targetDrug[1].brandName = "") THEN 5 ELSE 0

\* n = floor(10 * min(a, b) / max(a, b)) for the rationals a and b; no n is
\* that floor when max(a, b) = 0
isFloorOfTenTimesMinOverMax(n, a, b) ==
    LET lo == IF a[1] * b[2] <= b[1] * a[2] THEN a ELSE b
        hi == IF a[1] * b[2] <= b[1] * a[2] THEN b ELSE a
    IN  /\ n * hi[1] * lo[2] <= 10 * lo[1] * hi[2]
        /\ 10 * lo[1] * hi[2] < (n + 1) * hi[1] * lo[2]

\* the confidence is min(90, 80 + F + S + B) for S = n
confidenceWithStrengthPoints(s, n) ==
    s.confidence = Min(80 + formPoints(s.drug) + n + brandPoints(s.drug), 90)

(* C19, as stated: the confidence of a Pass 2 suggestion is                *)
(* min(90, 80 + F + S + B) with S = floor(10 * min(a, b) / max(a, b)) for  *)
(* all strengths a and b the two dosages parse to, 0 included, and S = 0   *)
(* when a dosage does not parse.                                           *)
C19_ConfidenceForParsedStrengths ==
    Returned =>
        \A s \in pass2Suggestions :
            IF targetStrengthOf # None /\ parseStrength(s.drug.dosage) # None
            THEN \E n \in 0..10 :
                    /\ isFloorOfTenTimesMinOverMax(n, targetStrengthOf,
                                                   parseStrength(s.drug.dosage))
                    /\ confidenceWithStrengthPoints(s, n)
            ELSE confidenceWithStrengthPoints(s, 0)

(* C19, amended: the confidence of a Pass 2 suggestion is                  *)
(* min(90, 80 + F + S + B) with S = floor(10 * min(a, b) / max(a, b)) when *)
(* the two dosages parse to strengths a and b other than 0, and S = 0      *)
(* when a dosage does not parse or parses to 0.                            *)
C19_ConfidenceForNonZeroStrengths ==
    Returned =>
        \A s \in pass2Suggestions :
            IF truthy(targetStrengthOf) /\ truthy(parseStrength(s.drug.dosage))
            THEN \E n \in 0..10 :
                    /\ isFloorOfTenTimesMinOverMax(n, targetStrengthOf,
                                                   parseStrength(s.drug.dosage))
                    /\ confidenceWithStrengthPoints(s, n)
            ELSE confidenceWithStrengthPoints(s, 0)

\* Pass 2 returned a candidate with part of the strength points, below the
\* cap, and a candidate whose dosage parses to 0
C19_Witness ==
    /\ Returned
    /\ \E i, j \in 1..Len(result) :
          /\ result[i] \in pass2Suggestions
          /\ truthy(targetStrengthOf)
          /\ truthy(parseStrength(result[i].drug.dosage))
          /\ result[i].confidence \in 81..89
          /\ result[i].confidence # 85
          /\ result[j] \in pass2Suggestions
          /\ parseStrength(result[j].drug.dosage) # None
          /\ ~truthy(parseStrength(result[j].drug.dosage))

\* the two strengths are numbers and target strength / candidate strength is 1
ratioIsOne(a, b) ==
    /\ a # None
    /\ b # None
    /\ b[1] # 0
    /\ a[1] * b[2] = a[2] * b[1]

\* every pool candidate with the target's molecule that is not an exact
\* match has a Pass 2 suggestion, and the call ended without an error
pass2KeepsEveryCandidate ==
    /\ \A d \in candidatePool :
          (/\ toLowerCase(d.activeMolecule) = toLowerCase(targetDrug[1].activeMolecule)
           /\ ~sameTriple(d, targetDrug[1]))
              => \E s \in pass2Suggestions : s.drug = d
    /\ thrown = None

(* C20, as stated: a Pass 2 suggestion has no dosageAdjustment exactly     *)
(* when one of the two dosages does not parse or both parse and target     *)
(* strength / candidate strength is 1; a dosage that does not parse is no  *)
(* error and keeps the candidate in the pass, without strength points.     *)
C20_NoAdjustmentIffUnparsedOrEqual ==
    Returned =>
        /\ \A s \in pass2Suggestions :
              /\ (s.dosageAdjustment = None) <=>
                     \/ targetStrengthOf = None
                     \/ parseStrength(s.drug.dosage) = None
                     \/ ratioIsOne(targetStrengthOf, parseStrength(s.drug.dosage))
              /\ (targetStrengthOf = None \/ parseStrength(s.drug.dosage) = None)
                     => confidenceWithStrengthPoints(s, 0)
        /\ pass2KeepsEveryCandidate

(* C20, amended: a Pass 2 suggestion has no dosageAdjustment exactly when  *)
(* one of the two dosages does not parse or parses to 0, or both parse and *)
(* target strength / candidate strength is 1; a dosage that does not parse *)
(* is no error and keeps the candidate in the pass, without strength       *)
(* points.                                                                 *)
C20_NoAdjustmentIffNoStrengthOrEqual ==
    Returned =>
        /\ \A s \in pass2Suggestions :
              /\ (s.dosageAdjustment = None) <=>
                     \/ ~truthy(targetStrengthOf)
                     \/ ~truthy(parseStrength(s.drug.dosage))
                     \/ ratioIsOne(targetStrengthOf, parseStrength(s.drug.dosage))
              /\ (targetStrengthOf = None \/ parseStrength(s.drug.dosage) = None)
                     => confidenceWithStrengthPoints(s, 0)
        /\ pass2KeepsEveryCandidate

\* the target's dosage does not parse and Pass 2 returned two candidates
\* whose dosages parse, without adjustment
C20_Witness ==
    /\ Returned
    /\ targetStrengthOf = None
    /\ \E i, j \in 1..Len(result) :
          /\ i # j
          /\ result[i] \in pass2Suggestions
          /\ result[j] \in pass2Suggestions
          /\ truthy(parseStrength(result[i].drug.dosage))
          /\ result[i].dosageAdjustment = None
          /\ result[j].dosageAdjustment = None

-----------------------------------------------------------------------------
(* Properties of the warnings                                              *)

\* the suggestions Pass 1 pushed
pass1Suggestions ==
    {matchedSuggestions[i] : i \in {j \in 1..Len(matchedSuggestions) :
                                       matchedSuggestions[j].matchType = "exact"}}

\* the suggestions the rule pass pushed
rulePassSuggestions ==
    {ruleBasedSuggestions[i] : i \in 1..Len(ruleBasedSuggestions)}

\* the three warnings a candidate of Pass 2 can carry, in the order stated
possibleWarnings(candidate) ==
    <<[text    |-> <<"D", "i", "f", "f", "e", "r", "e", "n", "t", " ", "d", "o", "s", "a", "g", "e", " ", "f", "o", "r", "m", ":", " ">> \o targetDrug[1].dosageForm
                   \o <<" ", "→", " ">> \o candidate.dosageForm,
       present |-> toLowerCase(targetDrug[1].dosageForm) # toLowerCase(candidate.dosageForm)],
      [text    |-> <<"C", "o", "n", "t", "r", "o", "l", "l", "e", "d", " ", "s", "u", "b", "s", "t", "a", "n", "c", "e", " ", "-", " ", "v", "e", "r", "i", "f", "y", " ", "p", "r", "e", "s", "c", "r", "i", "p", "t", "i", "o", "n", " ", "r", "e", "q", "u", "i", "r", "e", "m", "e", "n", "t", "s">>,
       present |-> targetDrug[1].isControlled \/ candidate.isControlled],
      [text    |-> <<"D", "i", "f", "f", "e", "r", "e", "n", "t", " ", "m", "a", "n", "u", "f", "a", "c", "t", "u", "r", "e", "r", " ", "-", " ", "m", "o", "n", "i", "t", "o", "r", " ", "p", "a", "t", "i", "e", "n", "t", " ", "r", "e", "s", "p", "o", "n", "s", "e">>,
       present |-> /\ targetDrug[1].manufacturer # candidate.manufacturer
                   /\ \E i \in 1..Len(targetDrug[1].category) - 6 :
                         toLowerCase(SubSeq(targetDrug[1].category, i, i + 6)) = <<"c", "a", "r", "d", "i", "a", "c">>]>>

\* the texts of the warnings that are present, in the order stated
expectedWarnings(candidate) ==
    LET present(w) == w.present
        chosen == SelectSeq(possibleWarnings(candidate), present)
    IN  [i \in 1..Len(chosen) |-> chosen[i].text]

(* C21: the warnings of a Pass 2 suggestion are the form warning iff the   *)
(* forms differ case-insensitively, the controlled-substance warning iff   *)
(* the target or the candidate is controlled, and the manufacturer warning *)
(* iff the manufacturers differ and the target's category contains         *)
(* "cardiac" in any case, in this order; the suggestions of the exact pass *)
(* and of the rule pass carry no warnings.                                 *)
C21_WarningsOfPass2Only ==
    Returned =>
        /\ \A s \in pass2Suggestions : s.warnings = Some(expectedWarnings(s.drug))
        /\ \A s \in pass1Suggestions \cup rulePassSuggestions : s.warnings = None

\* Pass 2 pushed a suggestion with the form warning and the controlled
\* warning for a drug the rule pass pushed without warnings, and another
\* with no warning at all
C21_Witness ==
    /\ Returned
    /\ \E s \in pass2Suggestions, r \in rulePassSuggestions :
          /\ s.drug = r.drug
          /\ s.drug.isControlled
          /\ Len(s.warnings[1]) = 2
          /\ r.warnings = None
    /\ \E s \in pass2Suggestions : s.warnings = Some(<<>>)

-----------------------------------------------------------------------------
(* Properties of the similar pass                                          *)

\* the suggestions Pass 3 pushed
pass3Suggestions ==
    {matchedSuggestions[i] : i \in {j \in 1..Len(matchedSuggestions) :
                                       matchedSuggestions[j].matchType = "similar"}}

\* the candidate is of the target's class and of another molecule
sameClassOtherMolecule(d) ==
    /\ toLowerCase(d.category) = toLowerCase(targetDrug[1].category)
    /\ toLowerCase(d.activeMolecule) # toLowerCase(targetDrug[1].activeMolecule)

\* 20 for the same dosage form in any case
similarFormPoints(candidate) ==
    IF toLowerCase(candidate.dosageForm) = toLowerCase(targetDrug[1].dosageForm)
    THEN 20 ELSE 0

\* 15 for generic names the name-similarity helper finds similar
similarNamePoints(candidate) ==
    IF haveSimilarNames(targetDrug[1].genericName, candidate.genericName)
    THEN 15 ELSE 0

(* C22: a pool candidate has a 'similar' suggestion exactly when it is of  *)
(* the target's category and of another molecule, both compared            *)
(* case-insensitively; the confidence is min(75, 40 + 20 for the same form *)
(* + 15 for similar generic names), the only warning is the fixed          *)
(* "Different active molecule" text and there is no dosageAdjustment.      *)
C22_SimilarSuggestions ==
    Returned =>
        /\ \A d \in candidatePool :
              (\E s \in pass3Suggestions : s.drug = d) <=> sameClassOtherMolecule(d)
        /\ \A s \in pass3Suggestions :
              /\ s.drug \in candidatePool
              /\ s.confidence = Min(75, 40 + similarFormPoints(s.drug) + similarNamePoints(s.drug))
              /\ s.warnings = Some(<<<<"D", "i", "f", "f", "e", "r", "e", "n", "t", " ", "a", "c", "t", "i", "v", "e", " ", "m", "o", "l", "e", "c", "u", "l", "e", " ", "-", " ", "c", "o", "n", "s", "u", "l", "t", " ", "p", "h", "a", "r", "m", "a", "c", "i", "s", "t", " ", "b", "e", "f", "o", "r", "e", " ", "s", "u", "b", "s", "t", "i", "t", "u", "t", "i", "o", "n">>>>)
              /\ s.dosageAdjustment = None

\* Pass 3 pushed a suggestion with all the points, capped at 75, and one
\* without the points for the name
C22_Witness ==
    /\ Returned
    /\ \E s, t \in pass3Suggestions :
          /\ 40 + similarFormPoints(s.drug) + similarNamePoints(s.drug) = 75
          /\ s.confidence = 75
          /\ similarNamePoints(t.drug) = 0
          /\ t.confidence = 60

-----------------------------------------------------------------------------
(* Properties of haveSimilarNames                                          *)

\* the letters a to z, in either case
isBasicLetter(c) ==
    \/ \E i \in 1..Len(LowerCaseLetters) : c = LowerCaseLetters[i]
    \/ \E i \in 1..Len(UpperCaseLetters) : c = UpperCaseLetters[i]

\* the characters of the names that are letters
isLetter(c) == isBasicLetter(c) \/ c = "é"

\* the name lowercased and stripped of every character that is no letter
cleanedName(name) == SelectSeq(toLowerCase(name), isLetter)

\* the name lowercased and stripped of every character other than a to z
basicLettersOf(name) == SelectSeq(toLowerCase(name), isBasicLetter)

\* the first four characters, the whole name when it has fewer
firstFour(clean) == SubSeq(clean, 1, IF Len(clean) < 4 THEN Len(clean) ELSE 4)

\* the text occurs in the name as a substring
contains(clean, text) ==
    \E i \in 1..(Len(clean) - Len(text) + 1) :
        SubSeq(clean, i, i + Len(text) - 1) = text

\* one of the two cleaned names contains the first four characters of the other
eitherContainsFirstFour(clean1, clean2) ==
    \/ contains(clean1, firstFour(clean2))
    \/ contains(clean2, firstFour(clean1))

(* C23, as stated: haveSimilarNames returns true exactly when one of the   *)
(* two names, lowercased and stripped of every non-letter character,       *)
(* contains the first four characters of the other (the whole cleaned name *)
(* when it is shorter), and it returns the same for the two names swapped. *)
C23_SimilarIffPrefixContained ==
    similarNames # None =>
        /\ similarNames[1] <=> eitherContainsFirstFour(cleanedName(nameArguments[1]),
                                                       cleanedName(nameArguments[2]))
        /\ similarNames[1] = haveSimilarNames(nameArguments[2], nameArguments[1])

(* C23, amended: haveSimilarNames returns true exactly when one of the two *)
(* names, lowercased and stripped of every character other than the        *)
(* letters a to z, contains the first four characters of the other (the    *)
(* whole cleaned name when it is shorter), and it returns the same for the *)
(* two names swapped.                                                      *)
C23_SimilarIffBasicPrefixContained ==
    similarNames # None =>
        /\ similarNames[1] <=> eitherContainsFirstFour(basicLettersOf(nameArguments[1]),
                                                       basicLettersOf(nameArguments[2]))
        /\ similarNames[1] = haveSimilarNames(nameArguments[2], nameArguments[1])

\* haveSimilarNames returned true for two names of which only the second,
\* once cleaned, contains the first four letters of the first, which has
\* other characters among them
C23_Witness ==
    /\ similarNames = Some(TRUE)
    /\ Len(basicLettersOf(nameArguments[1])) = 4
    /\ Len(nameArguments[1]) > 4
    /\ Len(basicLettersOf(nameArguments[2])) > 4
    /\ contains(basicLettersOf(nameArguments[2]), basicLettersOf(nameArguments[1]))

-----------------------------------------------------------------------------
(* Properties of the rule pass                                             *)

\* the drug ids of the suggestions the rule pass pushed, in its order
rulePassIds == [i \in 1..Len(ruleBasedSuggestions) |-> ruleBasedSuggestions[i].drug.id]

(* C24: the rule pass uses exactly the rules that are active and carry the *)
(* target's molecule and form in any case and its dosage string; for these *)
(* every listed id of a drug of the candidate pool gives one suggestion    *)
(* for that drug, in the order of the rules and of their lists, an id of   *)
(* no drug of the pool is skipped without an error, and the other rules    *)
(* give nothing.                                                           *)
C24_RulePassResolvesListedIds ==
    Returned =>
        /\ rulePassIds = ruleDiscoveryOrder
        /\ \A s \in rulePassSuggestions : s.drug \in candidatePool
        /\ thrown = None

\* two rules are used: the first lists an id no pool drug has ahead of one
\* that is resolved, and the second is resolved after it
C24_Witness ==
    /\ Returned
    /\ Cardinality(activeMatchingRules) = 2
    /\ \E n, m \in 1..Len(substitutionRules[1].equivalentDrugs) :
          /\ n < m
          /\ substitutionRules[1].equivalentDrugs[n] \notin listedInPool(1)
          /\ substitutionRules[1].equivalentDrugs[m] \in listedInPool(1)
    /\ listedInPool(2) # {}
    /\ Len(ruleBasedSuggestions) >= 2
    /\ ruleBasedSuggestions[Len(ruleBasedSuggestions)].drug.id \in listedInPool(2)

\* the rule each suggestion of the rule pass was pushed for: the indices of
\* the active matching rules, each once per listed id of a pool drug
rulePassRules ==
    LET inPool(id) == \E d \in candidatePool : d.id = id
    IN  flatten([r \in 1..Len(substitutionRules) |->
                    IF r \in activeMatchingRules
                    THEN [n \in 1..Len(SelectSeq(substitutionRules[r].equivalentDrugs, inPool)) |-> r]
                    ELSE <<>>])

\* the rule pass has run for a target drug
RulePassDone ==
    targetDrug # None /\ last \in {"findSubstitutes", "applySubstitutionRules"}

\* the rule has notes that are not the empty text
hasNotes(rule) == rule.notes # None /\ Len(rule.notes[1]) > 0

(* C25: a suggestion of the rule pass has the dosageAdjustment "Adjust     *)
(* dose by factor of {ratio}" iff the rule's substitutionRatio is not 1,   *)
(* and none otherwise; its reason is "Custom substitution rule: " followed *)
(* by the rule's notes, or by "Pharmacy-approved equivalent" when the rule *)
(* has no notes or empty notes.                                            *)
C25_RuleAdjustmentAndReason ==
    RulePassDone =>
        /\ Len(rulePassRules) = Len(ruleBasedSuggestions)
        /\ \A i \in 1..Len(ruleBasedSuggestions) :
              LET rule == substitutionRules[rulePassRules[i]]
                  s == ruleBasedSuggestions[i]
              IN  /\ (s.dosageAdjustment # None)
                         <=> rule.substitutionRatio[1] # rule.substitutionRatio[2]
                  /\ s.dosageAdjustment # None =>
                         s.dosageAdjustment[1] = <<"A", "d", "j", "u", "s", "t", " ", "d", "o", "s", "e", " ", "b", "y", " ", "f", "a", "c", "t", "o", "r", " ", "o", "f", " ">>
                                                 \o numberToString(rule.substitutionRatio)
                  /\ s.reason = <<"C", "u", "s", "t", "o", "m", " ", "s", "u", "b", "s", "t", "i", "t", "u", "t", "i", "o", "n", " ", "r", "u", "l", "e", ":", " ">>
                                \o (IF hasNotes(rule) THEN rule.notes[1]
                                    ELSE <<"P", "h", "a", "r", "m", "a", "c", "y", "-", "a", "p", "p", "r", "o", "v", "e", "d", " ", "e", "q", "u", "i", "v", "a", "l", "e", "n", "t">>)

\* the rule pass pushed two suggestions for a rule with empty notes and a
\* ratio other than 1
C25_Witness ==
    /\ last = "applySubstitutionRules"
    /\ Len(ruleBasedSuggestions) = 2
    /\ substitutionRules[1].notes = Some(<<>>)
    /\ substitutionRules[1].substitutionRatio = <<3, 2>>
    /\ ruleBasedSuggestions[1].dosageAdjustment = Some(<<"A", "d", "j", "u", "s", "t", " ", "d", "o", "s", "e", " ", "b", "y", " ", "f", "a", "c", "t", "o", "r", " ", "o", "f", " ", "1", ".", "5">>)
    /\ ruleBasedSuggestions[2].reason = <<"C", "u", "s", "t", "o", "m", " ", "s", "u", "b", "s", "t", "i", "t", "u", "t", "i", "o", "n", " ", "r", "u", "l", "e", ":", " ", "P", "h", "a", "r", "m", "a", "c", "y", "-", "a", "p", "p", "r", "o", "v", "e", "d", " ", "e", "q", "u", "i", "v", "a", "l", "e", "n", "t">>

-----------------------------------------------------------------------------
(* Properties of the merged sequence                                       *)

(* C26: in the sequence findSubstitutes returns every 'exact' suggestion   *)
(* precedes every 'equivalent' one and every 'equivalent' suggestion       *)
(* precedes every 'similar' one: the confidences are 95, 80 to 90 and at   *)
(* most 75.                                                                *)
C26_GroupedByMatchType ==
    Returned =>
        /\ \A i, j \in 1..Len(result) :
              \/ result[i].matchType = "exact" /\ result[j].matchType = "equivalent"
              \/ result[i].matchType = "equivalent" /\ result[j].matchType = "similar"
              \/ result[i].matchType = "exact" /\ result[j].matchType = "similar"
              => i < j
        /\ \A i \in 1..Len(result) :
              /\ result[i].matchType = "exact" => result[i].confidence = 95
              /\ result[i].matchType = "equivalent" => result[i].confidence \in 80..90
              /\ result[i].matchType = "similar" => result[i].confidence <= 75

\* the call returned suggestions of the three types, the 'equivalent' one
\* pushed by the rule pass after the 'similar' one
C26_Witness ==
    /\ Returned
    /\ \E i, k, l \in 1..Len(result) :
          /\ result[i].matchType = "exact"
          /\ result[k].matchType = "equivalent"
          /\ result[k] \in rulePassSuggestions
          /\ result[l].matchType = "similar"
          /\ firstIndex(suggestions, result[l].drug.id) < firstIndex(suggestions, result[k].drug.id)

(* C27: each pool candidate is selected by at most one of the exact, the   *)
(* equivalent and the similar pass, so a drug id that occurs more than     *)
(* once before the merge has an occurrence the rule pass produced.         *)
C27_OnePassPerCandidate ==
    Returned =>
        /\ \A d \in candidatePool : occurrences(matchedSuggestions, d.id) <= 1
        /\ \A id \in idsOf(suggestions) :
              occurrences(suggestions, id) >= 2
                  => \E i \in 1..Len(rulePassIds) : rulePassIds[i] = id

\* the three passes selected one candidate each and the rule pass pushed one
\* of them again
C27_Witness ==
    /\ Returned
    /\ pass1Suggestions # {}
    /\ pass2Suggestions # {}
    /\ pass3Suggestions # {}
    /\ \E s \in pass2Suggestions \cup pass3Suggestions :
          occurrences(suggestions, s.drug.id) >= 2

\* the suggestions for drugs in stock, in their order
inStockOnly(s) ==
    LET inStock(x) == x.drug.stockLevel > 0
    IN  SelectSeq(s, inStock)

\* what findSubstitutes returns for the bound data and the target of the
\* last call, with the flag given
outputFor(avail) ==
    findSubstitutes(drugs, substitutionRules, targetDrug[1], avail).result

(* C28: for the same engine state and target, what findSubstitutes returns *)
(* with availableOnly is what it returns without it, less the suggestions  *)
(* for drugs with stockLevel 0: the same suggestions in the same order.    *)
C28_AvailableOnlyIsRestriction ==
    Returned =>
        /\ result = outputFor(availableOnly)
        /\ outputFor(TRUE) = inStockOnly(outputFor(FALSE))

\* availableOnly, and the call returned two suggestions or more that follow,
\* in the output without the flag, a suggestion for a drug out of stock
C28_Witness ==
    /\ Returned
    /\ availableOnly
    /\ Len(result) >= 2
    /\ Len(outputFor(FALSE)) = Len(result) + 1
    /\ outputFor(FALSE)[1].drug.stockLevel = 0

-----------------------------------------------------------------------------
(* Properties of updateData                                                *)

(* C29: after updateData called with a catalog and no rules argument the   *)
(* bound rule set is empty, whatever rules were bound before, and the      *)
(* findSubstitutes calls that follow produce no rule-based suggestion.     *)
C29_OmittedRulesClearTheRuleSet ==
    (dataArguments.by = "updateData" /\ dataArguments.replaced # None) =>
        /\ substitutionRules = <<>>
        /\ ruleBasedSuggestions = <<>>
        /\ \A i \in 1..Len(result) :
              SubSeq(result[i].reason, 1, 24) # <<"C", "u", "s", "t", "o", "m", " ", "s", "u", "b", "s", "t", "i", "t", "u", "t", "i", "o", "n", " ", "r", "u", "l", "e">>

\* a call returned suggestions after updateData without the rules argument
\* replaced a rule set that has a suggestion for the call's target and pool
C29_Witness ==
    /\ Returned
    /\ dataArguments.by = "updateData"
    /\ dataArguments.replaced # None
    /\ result # <<>>
    /\ applySubstitutionRules(dataArguments.replaced[1], targetDrug[1],
                              searchPool(drugs, targetDrug[1], availableOnly)) # <<>>

-----------------------------------------------------------------------------
(* Properties of the SubstitutionPanel                                     *)

(* C30: whenever loading is false and targetDrug is not null, the panel's  *)
(* suggestions are findSubstitutes(targetDrug, !showUnavailable) over the  *)
(* current allDrugs, and whenever targetDrug is null they are empty: no    *)
(* timer scheduled for earlier inputs leaves results for inputs that are   *)
(* no longer current.                                                      *)
C30_SuggestionsAreForCurrentInputs ==
    /\ (~panel.loading /\ panel.targetDrug # None) =>
           panel.suggestions = findSubstitutes(panel.allDrugs, <<>>, panel.targetDrug[1],
                                               ~panel.showUnavailable).result
    /\ panel.targetDrug = None => panel.suggestions = <<>>

=============================================================================
